---------------------------- MODULE Spec2Model ----------------------------
(***************************************************************************)
(* Model of the Adaptic backend: the /api/agent request handler (server    *)
(* file, src/unnamed/part_000) driving one run of the conversation graph   *)
(* (src/src/ai/graph.ts) and relaying it as server-sent wire events.       *)
(*                                                                         *)
(* Text is a sequence of pieces.  Text that the program inspects (user     *)
(* input, model replies) is a sequence of single characters; the fixed     *)
(* literals of the source that are only copied are kept as one piece.      *)
(***************************************************************************)
EXTENDS Integers, Sequences, FiniteSets, TLC

(***************************************************************************)
(* Bounds of the model                                                     *)
(***************************************************************************)
\* createdAt timestamps the finalize stage may observe: 1..MaxClock
MaxClock == 1

\* the requests that may be active at the same time
Requests == {1, 2}

(***************************************************************************)
(* Program constants                                                       *)
(***************************************************************************)
recursionLimit == 100
HttpBadRequest == 400

(***************************************************************************)
(* JavaScript values                                                       *)
(***************************************************************************)
\* null / undefined: both are "nullish" for ?? and falsy for ||
Null == [t |-> "null"]
Str(s) == [t |-> "str", v |-> s]
Arr(items) == [t |-> "arr", v |-> items]
Num(n) == [t |-> "num", v |-> n]
Obj(fields) == [t |-> "obj", v |-> fields]

\* a reducer that takes the update even when it is null
CoalesceLatest(y, x) == y

\* y ?? x
Coalesce(y, x) == IF y = Null THEN x ELSE y

\* v || d   for a value that is null or a string
OrElse(v, d) == IF v = Null \/ v = Str(<<>>) THEN d ELSE v

(***************************************************************************)
(* Text helpers: String.prototype methods used by the program.  A text is  *)
(* a sequence of UTF-16 code units: a printable ASCII character other than *)
(* the grave accent stands for itself, "\t", "\n", "\f", "\r" for the      *)
(* controls they escape, and any other code unit is written "U+" followed  *)
(* by its four hexadecimal digits in upper case ("U+00C9", "U+0060").      *)
(***************************************************************************)
UpperCase == <<"A","B","C","D","E","F","G","H","I","J","K","L","M",
               "N","O","P","Q","R","S","T","U","V","W","X","Y","Z">>
LowerCase == <<"a","b","c","d","e","f","g","h","i","j","k","l","m",
               "n","o","p","q","r","s","t","u","v","w","x","y","z">>
Digits == <<"0","1","2","3","4","5","6","7","8","9">>

\* the f-th code unit of the k-th entry of a table whose entries are width
\* hexadecimal digits, four a code unit
HexField(table, width, k, f) ==
    "U+" \o SubSeq(table, width * (k - 1) + 4 * f - 3, width * (k - 1) + 4 * f)

\* the code units outside ASCII that toLowerCase changes into one code unit
\* outside ASCII (default case conversion of Unicode 17.0, independent of
\* the locale): eight hexadecimal digits an entry, the code unit and then
\* what it becomes
NonAsciiLowerings ==
    "00C000E000C100E100C200E200C300E300C400E400C500E500C600E600C700E7" \o
    "00C800E800C900E900CA00EA00CB00EB00CC00EC00CD00ED00CE00EE00CF00EF" \o
    "00D000F000D100F100D200F200D300F300D400F400D500F500D600F600D800F8" \o
    "00D900F900DA00FA00DB00FB00DC00FC00DD00FD00DE00FE0100010101020103" \o
    "010401050106010701080109010A010B010C010D010E010F0110011101120113" \o
    "011401150116011701180119011A011B011C011D011E011F0120012101220123" \o
    "012401250126012701280129012A012B012C012D012E012F0132013301340135" \o
    "013601370139013A013B013C013D013E013F0140014101420143014401450146" \o
    "01470148014A014B014C014D014E014F01500151015201530154015501560157" \o
    "01580159015A015B015C015D015E015F01600161016201630164016501660167" \o
    "01680169016A016B016C016D016E016F01700171017201730174017501760177" \o
    "017800FF0179017A017B017C017D017E01810253018201830184018501860254" \o
    "0187018801890256018A0257018B018C018E01DD018F02590190025B01910192" \o
    "0193026001940263019602690197026801980199019C026F019D0272019F0275" \o
    "01A001A101A201A301A401A501A6028001A701A801A9028301AC01AD01AE0288" \o
    "01AF01B001B1028A01B2028B01B301B401B501B601B7029201B801B901BC01BD" \o
    "01C401C601C501C601C701C901C801C901CA01CC01CB01CC01CD01CE01CF01D0" \o
    "01D101D201D301D401D501D601D701D801D901DA01DB01DC01DE01DF01E001E1" \o
    "01E201E301E401E501E601E701E801E901EA01EB01EC01ED01EE01EF01F101F3" \o
    "01F201F301F401F501F6019501F701BF01F801F901FA01FB01FC01FD01FE01FF" \o
    "0200020102020203020402050206020702080209020A020B020C020D020E020F" \o
    "0210021102120213021402150216021702180219021A021B021C021D021E021F" \o
    "0220019E02220223022402250226022702280229022A022B022C022D022E022F" \o
    "0230023102320233023A2C65023B023C023D019A023E2C660241024202430180" \o
    "024402890245028C0246024702480249024A024B024C024D024E024F03700371" \o
    "0372037303760377037F03F3038603AC038803AD038903AE038A03AF038C03CC" \o
    "038E03CD038F03CE039103B1039203B2039303B3039403B4039503B5039603B6" \o
    "039703B7039803B8039903B9039A03BA039B03BB039C03BC039D03BD039E03BE" \o
    "039F03BF03A003C003A103C103A303C303A403C403A503C503A603C603A703C7" \o
    "03A803C803A903C903AA03CA03AB03CB03CF03D703D803D903DA03DB03DC03DD" \o
    "03DE03DF03E003E103E203E303E403E503E603E703E803E903EA03EB03EC03ED" \o
    "03EE03EF03F403B803F703F803F903F203FA03FB03FD037B03FE037C03FF037D" \o
    "0400045004010451040204520403045304040454040504550406045604070457" \o
    "0408045804090459040A045A040B045B040C045C040D045D040E045E040F045F" \o
    "0410043004110431041204320413043304140434041504350416043604170437" \o
    "0418043804190439041A043A041B043B041C043C041D043D041E043E041F043F" \o
    "0420044004210441042204420423044304240444042504450426044604270447" \o
    "0428044804290449042A044A042B044B042C044C042D044D042E044E042F044F" \o
    "0460046104620463046404650466046704680469046A046B046C046D046E046F" \o
    "0470047104720473047404750476047704780479047A047B047C047D047E047F" \o
    "04800481048A048B048C048D048E048F04900491049204930494049504960497" \o
    "04980499049A049B049C049D049E049F04A004A104A204A304A404A504A604A7" \o
    "04A804A904AA04AB04AC04AD04AE04AF04B004B104B204B304B404B504B604B7" \o
    "04B804B904BA04BB04BC04BD04BE04BF04C004CF04C104C204C304C404C504C6" \o
    "04C704C804C904CA04CB04CC04CD04CE04D004D104D204D304D404D504D604D7" \o
    "04D804D904DA04DB04DC04DD04DE04DF04E004E104E204E304E404E504E604E7" \o
    "04E804E904EA04EB04EC04ED04EE04EF04F004F104F204F304F404F504F604F7" \o
    "04F804F904FA04FB04FC04FD04FE04FF05000501050205030504050505060507" \o
    "05080509050A050B050C050D050E050F05100511051205130514051505160517" \o
    "05180519051A051B051C051D051E051F05200521052205230524052505260527" \o
    "05280529052A052B052C052D052E052F05310561053205620533056305340564" \o
    "0535056505360566053705670538056805390569053A056A053B056B053C056C" \o
    "053D056D053E056E053F056F0540057005410571054205720543057305440574" \o
    "0545057505460576054705770548057805490579054A057A054B057B054C057C" \o
    "054D057D054E057E054F057F0550058005510581055205820553058305540584" \o
    "055505850556058610A02D0010A12D0110A22D0210A32D0310A42D0410A52D05" \o
    "10A62D0610A72D0710A82D0810A92D0910AA2D0A10AB2D0B10AC2D0C10AD2D0D" \o
    "10AE2D0E10AF2D0F10B02D1010B12D1110B22D1210B32D1310B42D1410B52D15" \o
    "10B62D1610B72D1710B82D1810B92D1910BA2D1A10BB2D1B10BC2D1C10BD2D1D" \o
    "10BE2D1E10BF2D1F10C02D2010C12D2110C22D2210C32D2310C42D2410C52D25" \o
    "10C72D2710CD2D2D13A0AB7013A1AB7113A2AB7213A3AB7313A4AB7413A5AB75" \o
    "13A6AB7613A7AB7713A8AB7813A9AB7913AAAB7A13ABAB7B13ACAB7C13ADAB7D" \o
    "13AEAB7E13AFAB7F13B0AB8013B1AB8113B2AB8213B3AB8313B4AB8413B5AB85" \o
    "13B6AB8613B7AB8713B8AB8813B9AB8913BAAB8A13BBAB8B13BCAB8C13BDAB8D" \o
    "13BEAB8E13BFAB8F13C0AB9013C1AB9113C2AB9213C3AB9313C4AB9413C5AB95" \o
    "13C6AB9613C7AB9713C8AB9813C9AB9913CAAB9A13CBAB9B13CCAB9C13CDAB9D" \o
    "13CEAB9E13CFAB9F13D0ABA013D1ABA113D2ABA213D3ABA313D4ABA413D5ABA5" \o
    "13D6ABA613D7ABA713D8ABA813D9ABA913DAABAA13DBABAB13DCABAC13DDABAD" \o
    "13DEABAE13DFABAF13E0ABB013E1ABB113E2ABB213E3ABB313E4ABB413E5ABB5" \o
    "13E6ABB613E7ABB713E8ABB813E9ABB913EAABBA13EBABBB13ECABBC13EDABBD" \o
    "13EEABBE13EFABBF13F013F813F113F913F213FA13F313FB13F413FC13F513FD" \o
    "1C891C8A1C9010D01C9110D11C9210D21C9310D31C9410D41C9510D51C9610D6" \o
    "1C9710D71C9810D81C9910D91C9A10DA1C9B10DB1C9C10DC1C9D10DD1C9E10DE" \o
    "1C9F10DF1CA010E01CA110E11CA210E21CA310E31CA410E41CA510E51CA610E6" \o
    "1CA710E71CA810E81CA910E91CAA10EA1CAB10EB1CAC10EC1CAD10ED1CAE10EE" \o
    "1CAF10EF1CB010F01CB110F11CB210F21CB310F31CB410F41CB510F51CB610F6" \o
    "1CB710F71CB810F81CB910F91CBA10FA1CBD10FD1CBE10FE1CBF10FF1E001E01" \o
    "1E021E031E041E051E061E071E081E091E0A1E0B1E0C1E0D1E0E1E0F1E101E11" \o
    "1E121E131E141E151E161E171E181E191E1A1E1B1E1C1E1D1E1E1E1F1E201E21" \o
    "1E221E231E241E251E261E271E281E291E2A1E2B1E2C1E2D1E2E1E2F1E301E31" \o
    "1E321E331E341E351E361E371E381E391E3A1E3B1E3C1E3D1E3E1E3F1E401E41" \o
    "1E421E431E441E451E461E471E481E491E4A1E4B1E4C1E4D1E4E1E4F1E501E51" \o
    "1E521E531E541E551E561E571E581E591E5A1E5B1E5C1E5D1E5E1E5F1E601E61" \o
    "1E621E631E641E651E661E671E681E691E6A1E6B1E6C1E6D1E6E1E6F1E701E71" \o
    "1E721E731E741E751E761E771E781E791E7A1E7B1E7C1E7D1E7E1E7F1E801E81" \o
    "1E821E831E841E851E861E871E881E891E8A1E8B1E8C1E8D1E8E1E8F1E901E91" \o
    "1E921E931E941E951E9E00DF1EA01EA11EA21EA31EA41EA51EA61EA71EA81EA9" \o
    "1EAA1EAB1EAC1EAD1EAE1EAF1EB01EB11EB21EB31EB41EB51EB61EB71EB81EB9" \o
    "1EBA1EBB1EBC1EBD1EBE1EBF1EC01EC11EC21EC31EC41EC51EC61EC71EC81EC9" \o
    "1ECA1ECB1ECC1ECD1ECE1ECF1ED01ED11ED21ED31ED41ED51ED61ED71ED81ED9" \o
    "1EDA1EDB1EDC1EDD1EDE1EDF1EE01EE11EE21EE31EE41EE51EE61EE71EE81EE9" \o
    "1EEA1EEB1EEC1EED1EEE1EEF1EF01EF11EF21EF31EF41EF51EF61EF71EF81EF9" \o
    "1EFA1EFB1EFC1EFD1EFE1EFF1F081F001F091F011F0A1F021F0B1F031F0C1F04" \o
    "1F0D1F051F0E1F061F0F1F071F181F101F191F111F1A1F121F1B1F131F1C1F14" \o
    "1F1D1F151F281F201F291F211F2A1F221F2B1F231F2C1F241F2D1F251F2E1F26" \o
    "1F2F1F271F381F301F391F311F3A1F321F3B1F331F3C1F341F3D1F351F3E1F36" \o
    "1F3F1F371F481F401F491F411F4A1F421F4B1F431F4C1F441F4D1F451F591F51" \o
    "1F5B1F531F5D1F551F5F1F571F681F601F691F611F6A1F621F6B1F631F6C1F64" \o
    "1F6D1F651F6E1F661F6F1F671F881F801F891F811F8A1F821F8B1F831F8C1F84" \o
    "1F8D1F851F8E1F861F8F1F871F981F901F991F911F9A1F921F9B1F931F9C1F94" \o
    "1F9D1F951F9E1F961F9F1F971FA81FA01FA91FA11FAA1FA21FAB1FA31FAC1FA4" \o
    "1FAD1FA51FAE1FA61FAF1FA71FB81FB01FB91FB11FBA1F701FBB1F711FBC1FB3" \o
    "1FC81F721FC91F731FCA1F741FCB1F751FCC1FC31FD81FD01FD91FD11FDA1F76" \o
    "1FDB1F771FE81FE01FE91FE11FEA1F7A1FEB1F7B1FEC1FE51FF81F781FF91F79" \o
    "1FFA1F7C1FFB1F7D1FFC1FF3212603C9212B00E52132214E2160217021612171" \o
    "2162217221632173216421742165217521662176216721772168217821692179" \o
    "216A217A216B217B216C217C216D217D216E217E216F217F2183218424B624D0" \o
    "24B724D124B824D224B924D324BA24D424BB24D524BC24D624BD24D724BE24D8" \o
    "24BF24D924C024DA24C124DB24C224DC24C324DD24C424DE24C524DF24C624E0" \o
    "24C724E124C824E224C924E324CA24E424CB24E524CC24E624CD24E724CE24E8" \o
    "24CF24E92C002C302C012C312C022C322C032C332C042C342C052C352C062C36" \o
    "2C072C372C082C382C092C392C0A2C3A2C0B2C3B2C0C2C3C2C0D2C3D2C0E2C3E" \o
    "2C0F2C3F2C102C402C112C412C122C422C132C432C142C442C152C452C162C46" \o
    "2C172C472C182C482C192C492C1A2C4A2C1B2C4B2C1C2C4C2C1D2C4D2C1E2C4E" \o
    "2C1F2C4F2C202C502C212C512C222C522C232C532C242C542C252C552C262C56" \o
    "2C272C572C282C582C292C592C2A2C5A2C2B2C5B2C2C2C5C2C2D2C5D2C2E2C5E" \o
    "2C2F2C5F2C602C612C62026B2C631D7D2C64027D2C672C682C692C6A2C6B2C6C" \o
    "2C6D02512C6E02712C6F02502C7002522C722C732C752C762C7E023F2C7F0240" \o
    "2C802C812C822C832C842C852C862C872C882C892C8A2C8B2C8C2C8D2C8E2C8F" \o
    "2C902C912C922C932C942C952C962C972C982C992C9A2C9B2C9C2C9D2C9E2C9F" \o
    "2CA02CA12CA22CA32CA42CA52CA62CA72CA82CA92CAA2CAB2CAC2CAD2CAE2CAF" \o
    "2CB02CB12CB22CB32CB42CB52CB62CB72CB82CB92CBA2CBB2CBC2CBD2CBE2CBF" \o
    "2CC02CC12CC22CC32CC42CC52CC62CC72CC82CC92CCA2CCB2CCC2CCD2CCE2CCF" \o
    "2CD02CD12CD22CD32CD42CD52CD62CD72CD82CD92CDA2CDB2CDC2CDD2CDE2CDF" \o
    "2CE02CE12CE22CE32CEB2CEC2CED2CEE2CF22CF3A640A641A642A643A644A645" \o
    "A646A647A648A649A64AA64BA64CA64DA64EA64FA650A651A652A653A654A655" \o
    "A656A657A658A659A65AA65BA65CA65DA65EA65FA660A661A662A663A664A665" \o
    "A666A667A668A669A66AA66BA66CA66DA680A681A682A683A684A685A686A687" \o
    "A688A689A68AA68BA68CA68DA68EA68FA690A691A692A693A694A695A696A697" \o
    "A698A699A69AA69BA722A723A724A725A726A727A728A729A72AA72BA72CA72D" \o
    "A72EA72FA732A733A734A735A736A737A738A739A73AA73BA73CA73DA73EA73F" \o
    "A740A741A742A743A744A745A746A747A748A749A74AA74BA74CA74DA74EA74F" \o
    "A750A751A752A753A754A755A756A757A758A759A75AA75BA75CA75DA75EA75F" \o
    "A760A761A762A763A764A765A766A767A768A769A76AA76BA76CA76DA76EA76F" \o
    "A779A77AA77BA77CA77D1D79A77EA77FA780A781A782A783A784A785A786A787" \o
    "A78BA78CA78D0265A790A791A792A793A796A797A798A799A79AA79BA79CA79D" \o
    "A79EA79FA7A0A7A1A7A2A7A3A7A4A7A5A7A6A7A7A7A8A7A9A7AA0266A7AB025C" \o
    "A7AC0261A7AD026CA7AE026AA7B0029EA7B10287A7B2029DA7B3AB53A7B4A7B5" \o
    "A7B6A7B7A7B8A7B9A7BAA7BBA7BCA7BDA7BEA7BFA7C0A7C1A7C2A7C3A7C4A794" \o
    "A7C50282A7C61D8EA7C7A7C8A7C9A7CAA7CB0264A7CCA7CDA7CEA7CFA7D0A7D1" \o
    "A7D2A7D3A7D4A7D5A7D6A7D7A7D8A7D9A7DAA7DBA7DC019BA7F5A7F6FF21FF41" \o
    "FF22FF42FF23FF43FF24FF44FF25FF45FF26FF46FF27FF47FF28FF48FF29FF49" \o
    "FF2AFF4AFF2BFF4BFF2CFF4CFF2DFF4DFF2EFF4EFF2FFF4FFF30FF50FF31FF51" \o
    "FF32FF52FF33FF53FF34FF54FF35FF55FF36FF56FF37FF57FF38FF58FF39FF59" \o
    "FF3AFF5A"

\* the letters outside the Basic Multilingual Plane that toLowerCase changes:
\* twelve hexadecimal digits an entry, the high surrogate, the low surrogate
\* and the low surrogate of the lower-case letter (the high surrogate stays)
AstralLowerings ==
    "D801DC00DC28D801DC01DC29D801DC02DC2AD801DC03DC2BD801DC04DC2C" \o
    "D801DC05DC2DD801DC06DC2ED801DC07DC2FD801DC08DC30D801DC09DC31" \o
    "D801DC0ADC32D801DC0BDC33D801DC0CDC34D801DC0DDC35D801DC0EDC36" \o
    "D801DC0FDC37D801DC10DC38D801DC11DC39D801DC12DC3AD801DC13DC3B" \o
    "D801DC14DC3CD801DC15DC3DD801DC16DC3ED801DC17DC3FD801DC18DC40" \o
    "D801DC19DC41D801DC1ADC42D801DC1BDC43D801DC1CDC44D801DC1DDC45" \o
    "D801DC1EDC46D801DC1FDC47D801DC20DC48D801DC21DC49D801DC22DC4A" \o
    "D801DC23DC4BD801DC24DC4CD801DC25DC4DD801DC26DC4ED801DC27DC4F" \o
    "D801DCB0DCD8D801DCB1DCD9D801DCB2DCDAD801DCB3DCDBD801DCB4DCDC" \o
    "D801DCB5DCDDD801DCB6DCDED801DCB7DCDFD801DCB8DCE0D801DCB9DCE1" \o
    "D801DCBADCE2D801DCBBDCE3D801DCBCDCE4D801DCBDDCE5D801DCBEDCE6" \o
    "D801DCBFDCE7D801DCC0DCE8D801DCC1DCE9D801DCC2DCEAD801DCC3DCEB" \o
    "D801DCC4DCECD801DCC5DCEDD801DCC6DCEED801DCC7DCEFD801DCC8DCF0" \o
    "D801DCC9DCF1D801DCCADCF2D801DCCBDCF3D801DCCCDCF4D801DCCDDCF5" \o
    "D801DCCEDCF6D801DCCFDCF7D801DCD0DCF8D801DCD1DCF9D801DCD2DCFA" \o
    "D801DCD3DCFBD801DD70DD97D801DD71DD98D801DD72DD99D801DD73DD9A" \o
    "D801DD74DD9BD801DD75DD9CD801DD76DD9DD801DD77DD9ED801DD78DD9F" \o
    "D801DD79DDA0D801DD7ADDA1D801DD7CDDA3D801DD7DDDA4D801DD7EDDA5" \o
    "D801DD7FDDA6D801DD80DDA7D801DD81DDA8D801DD82DDA9D801DD83DDAA" \o
    "D801DD84DDABD801DD85DDACD801DD86DDADD801DD87DDAED801DD88DDAF" \o
    "D801DD89DDB0D801DD8ADDB1D801DD8CDDB3D801DD8DDDB4D801DD8EDDB5" \o
    "D801DD8FDDB6D801DD90DDB7D801DD91DDB8D801DD92DDB9D801DD94DDBB" \o
    "D801DD95DDBCD803DC80DCC0D803DC81DCC1D803DC82DCC2D803DC83DCC3" \o
    "D803DC84DCC4D803DC85DCC5D803DC86DCC6D803DC87DCC7D803DC88DCC8" \o
    "D803DC89DCC9D803DC8ADCCAD803DC8BDCCBD803DC8CDCCCD803DC8DDCCD" \o
    "D803DC8EDCCED803DC8FDCCFD803DC90DCD0D803DC91DCD1D803DC92DCD2" \o
    "D803DC93DCD3D803DC94DCD4D803DC95DCD5D803DC96DCD6D803DC97DCD7" \o
    "D803DC98DCD8D803DC99DCD9D803DC9ADCDAD803DC9BDCDBD803DC9CDCDC" \o
    "D803DC9DDCDDD803DC9EDCDED803DC9FDCDFD803DCA0DCE0D803DCA1DCE1" \o
    "D803DCA2DCE2D803DCA3DCE3D803DCA4DCE4D803DCA5DCE5D803DCA6DCE6" \o
    "D803DCA7DCE7D803DCA8DCE8D803DCA9DCE9D803DCAADCEAD803DCABDCEB" \o
    "D803DCACDCECD803DCADDCEDD803DCAEDCEED803DCAFDCEFD803DCB0DCF0" \o
    "D803DCB1DCF1D803DCB2DCF2D803DD50DD70D803DD51DD71D803DD52DD72" \o
    "D803DD53DD73D803DD54DD74D803DD55DD75D803DD56DD76D803DD57DD77" \o
    "D803DD58DD78D803DD59DD79D803DD5ADD7AD803DD5BDD7BD803DD5CDD7C" \o
    "D803DD5DDD7DD803DD5EDD7ED803DD5FDD7FD803DD60DD80D803DD61DD81" \o
    "D803DD62DD82D803DD63DD83D803DD64DD84D803DD65DD85D806DCA0DCC0" \o
    "D806DCA1DCC1D806DCA2DCC2D806DCA3DCC3D806DCA4DCC4D806DCA5DCC5" \o
    "D806DCA6DCC6D806DCA7DCC7D806DCA8DCC8D806DCA9DCC9D806DCAADCCA" \o
    "D806DCABDCCBD806DCACDCCCD806DCADDCCDD806DCAEDCCED806DCAFDCCF" \o
    "D806DCB0DCD0D806DCB1DCD1D806DCB2DCD2D806DCB3DCD3D806DCB4DCD4" \o
    "D806DCB5DCD5D806DCB6DCD6D806DCB7DCD7D806DCB8DCD8D806DCB9DCD9" \o
    "D806DCBADCDAD806DCBBDCDBD806DCBCDCDCD806DCBDDCDDD806DCBEDCDE" \o
    "D806DCBFDCDFD81BDE40DE60D81BDE41DE61D81BDE42DE62D81BDE43DE63" \o
    "D81BDE44DE64D81BDE45DE65D81BDE46DE66D81BDE47DE67D81BDE48DE68" \o
    "D81BDE49DE69D81BDE4ADE6AD81BDE4BDE6BD81BDE4CDE6CD81BDE4DDE6D" \o
    "D81BDE4EDE6ED81BDE4FDE6FD81BDE50DE70D81BDE51DE71D81BDE52DE72" \o
    "D81BDE53DE73D81BDE54DE74D81BDE55DE75D81BDE56DE76D81BDE57DE77" \o
    "D81BDE58DE78D81BDE59DE79D81BDE5ADE7AD81BDE5BDE7BD81BDE5CDE7C" \o
    "D81BDE5DDE7DD81BDE5EDE7ED81BDE5FDE7FD81BDEA0DEBBD81BDEA1DEBC" \o
    "D81BDEA2DEBDD81BDEA3DEBED81BDEA4DEBFD81BDEA5DEC0D81BDEA6DEC1" \o
    "D81BDEA7DEC2D81BDEA8DEC3D81BDEA9DEC4D81BDEAADEC5D81BDEABDEC6" \o
    "D81BDEACDEC7D81BDEADDEC8D81BDEAEDEC9D81BDEAFDECAD81BDEB0DECB" \o
    "D81BDEB1DECCD81BDEB2DECDD81BDEB3DECED81BDEB4DECFD81BDEB5DED0" \o
    "D81BDEB6DED1D81BDEB7DED2D81BDEB8DED3D83ADD00DD22D83ADD01DD23" \o
    "D83ADD02DD24D83ADD03DD25D83ADD04DD26D83ADD05DD27D83ADD06DD28" \o
    "D83ADD07DD29D83ADD08DD2AD83ADD09DD2BD83ADD0ADD2CD83ADD0BDD2D" \o
    "D83ADD0CDD2ED83ADD0DDD2FD83ADD0EDD30D83ADD0FDD31D83ADD10DD32" \o
    "D83ADD11DD33D83ADD12DD34D83ADD13DD35D83ADD14DD36D83ADD15DD37" \o
    "D83ADD16DD38D83ADD17DD39D83ADD18DD3AD83ADD19DD3BD83ADD1ADD3C" \o
    "D83ADD1BDD3DD83ADD1CDD3ED83ADD1DDD3FD83ADD1EDD40D83ADD1FDD41" \o
    "D83ADD20DD42D83ADD21DD43"

\* Final_Sigma (Unicode SpecialCasing): the code units that are cased letters
\* and not case-ignorable; table holds those outside ASCII, four hexadecimal
\* digits each
CasedUnits ==
    LET table ==
        "00AA00B500BA00C000C100C200C300C400C500C600C700C800C900CA00CB00CC" \o
        "00CD00CE00CF00D000D100D200D300D400D500D600D800D900DA00DB00DC00DD" \o
        "00DE00DF00E000E100E200E300E400E500E600E700E800E900EA00EB00EC00ED" \o
        "00EE00EF00F000F100F200F300F400F500F600F800F900FA00FB00FC00FD00FE" \o
        "00FF0100010101020103010401050106010701080109010A010B010C010D010E" \o
        "010F0110011101120113011401150116011701180119011A011B011C011D011E" \o
        "011F0120012101220123012401250126012701280129012A012B012C012D012E" \o
        "012F0130013101320133013401350136013701380139013A013B013C013D013E" \o
        "013F0140014101420143014401450146014701480149014A014B014C014D014E" \o
        "014F0150015101520153015401550156015701580159015A015B015C015D015E" \o
        "015F0160016101620163016401650166016701680169016A016B016C016D016E" \o
        "016F0170017101720173017401750176017701780179017A017B017C017D017E" \o
        "017F0180018101820183018401850186018701880189018A018B018C018D018E" \o
        "018F0190019101920193019401950196019701980199019A019B019C019D019E" \o
        "019F01A001A101A201A301A401A501A601A701A801A901AA01AB01AC01AD01AE" \o
        "01AF01B001B101B201B301B401B501B601B701B801B901BA01BC01BD01BE01BF" \o
        "01C401C501C601C701C801C901CA01CB01CC01CD01CE01CF01D001D101D201D3" \o
        "01D401D501D601D701D801D901DA01DB01DC01DD01DE01DF01E001E101E201E3" \o
        "01E401E501E601E701E801E901EA01EB01EC01ED01EE01EF01F001F101F201F3" \o
        "01F401F501F601F701F801F901FA01FB01FC01FD01FE01FF0200020102020203" \o
        "020402050206020702080209020A020B020C020D020E020F0210021102120213" \o
        "021402150216021702180219021A021B021C021D021E021F0220022102220223" \o
        "022402250226022702280229022A022B022C022D022E022F0230023102320233" \o
        "023402350236023702380239023A023B023C023D023E023F0240024102420243" \o
        "024402450246024702480249024A024B024C024D024E024F0250025102520253" \o
        "025402550256025702580259025A025B025C025D025E025F0260026102620263" \o
        "026402650266026702680269026A026B026C026D026E026F0270027102720273" \o
        "027402750276027702780279027A027B027C027D027E027F0280028102820283" \o
        "028402850286028702880289028A028B028C028D028E028F0290029102920293" \o
        "0296029702980299029A029B029C029D029E029F02A002A102A202A302A402A5" \o
        "02A602A702A802A902AA02AB02AC02AD02AE02AF037003710372037303760377" \o
        "037B037C037D037F038603880389038A038C038E038F03900391039203930394" \o
        "03950396039703980399039A039B039C039D039E039F03A003A103A303A403A5" \o
        "03A603A703A803A903AA03AB03AC03AD03AE03AF03B003B103B203B303B403B5" \o
        "03B603B703B803B903BA03BB03BC03BD03BE03BF03C003C103C203C303C403C5" \o
        "03C603C703C803C903CA03CB03CC03CD03CE03CF03D003D103D203D303D403D5" \o
        "03D603D703D803D903DA03DB03DC03DD03DE03DF03E003E103E203E303E403E5" \o
        "03E603E703E803E903EA03EB03EC03ED03EE03EF03F003F103F203F303F403F5" \o
        "03F703F803F903FA03FB03FC03FD03FE03FF0400040104020403040404050406" \o
        "040704080409040A040B040C040D040E040F0410041104120413041404150416" \o
        "041704180419041A041B041C041D041E041F0420042104220423042404250426" \o
        "042704280429042A042B042C042D042E042F0430043104320433043404350436" \o
        "043704380439043A043B043C043D043E043F0440044104420443044404450446" \o
        "044704480449044A044B044C044D044E044F0450045104520453045404550456" \o
        "045704580459045A045B045C045D045E045F0460046104620463046404650466" \o
        "046704680469046A046B046C046D046E046F0470047104720473047404750476" \o
        "047704780479047A047B047C047D047E047F04800481048A048B048C048D048E" \o
        "048F0490049104920493049404950496049704980499049A049B049C049D049E" \o
        "049F04A004A104A204A304A404A504A604A704A804A904AA04AB04AC04AD04AE" \o
        "04AF04B004B104B204B304B404B504B604B704B804B904BA04BB04BC04BD04BE" \o
        "04BF04C004C104C204C304C404C504C604C704C804C904CA04CB04CC04CD04CE" \o
        "04CF04D004D104D204D304D404D504D604D704D804D904DA04DB04DC04DD04DE" \o
        "04DF04E004E104E204E304E404E504E604E704E804E904EA04EB04EC04ED04EE" \o
        "04EF04F004F104F204F304F404F504F604F704F804F904FA04FB04FC04FD04FE" \o
        "04FF0500050105020503050405050506050705080509050A050B050C050D050E" \o
        "050F0510051105120513051405150516051705180519051A051B051C051D051E" \o
        "051F0520052105220523052405250526052705280529052A052B052C052D052E" \o
        "052F053105320533053405350536053705380539053A053B053C053D053E053F" \o
        "0540054105420543054405450546054705480549054A054B054C054D054E054F" \o
        "0550055105520553055405550556056005610562056305640565056605670568" \o
        "0569056A056B056C056D056E056F057005710572057305740575057605770578" \o
        "0579057A057B057C057D057E057F058005810582058305840585058605870588" \o
        "10A010A110A210A310A410A510A610A710A810A910AA10AB10AC10AD10AE10AF" \o
        "10B010B110B210B310B410B510B610B710B810B910BA10BB10BC10BD10BE10BF" \o
        "10C010C110C210C310C410C510C710CD10D010D110D210D310D410D510D610D7" \o
        "10D810D910DA10DB10DC10DD10DE10DF10E010E110E210E310E410E510E610E7" \o
        "10E810E910EA10EB10EC10ED10EE10EF10F010F110F210F310F410F510F610F7" \o
        "10F810F910FA10FD10FE10FF13A013A113A213A313A413A513A613A713A813A9" \o
        "13AA13AB13AC13AD13AE13AF13B013B113B213B313B413B513B613B713B813B9" \o
        "13BA13BB13BC13BD13BE13BF13C013C113C213C313C413C513C613C713C813C9" \o
        "13CA13CB13CC13CD13CE13CF13D013D113D213D313D413D513D613D713D813D9" \o
        "13DA13DB13DC13DD13DE13DF13E013E113E213E313E413E513E613E713E813E9" \o
        "13EA13EB13EC13ED13EE13EF13F013F113F213F313F413F513F813F913FA13FB" \o
        "13FC13FD1C801C811C821C831C841C851C861C871C881C891C8A1C901C911C92" \o
        "1C931C941C951C961C971C981C991C9A1C9B1C9C1C9D1C9E1C9F1CA01CA11CA2" \o
        "1CA31CA41CA51CA61CA71CA81CA91CAA1CAB1CAC1CAD1CAE1CAF1CB01CB11CB2" \o
        "1CB31CB41CB51CB61CB71CB81CB91CBA1CBD1CBE1CBF1D001D011D021D031D04" \o
        "1D051D061D071D081D091D0A1D0B1D0C1D0D1D0E1D0F1D101D111D121D131D14" \o
        "1D151D161D171D181D191D1A1D1B1D1C1D1D1D1E1D1F1D201D211D221D231D24" \o
        "1D251D261D271D281D291D2A1D2B1D6B1D6C1D6D1D6E1D6F1D701D711D721D73" \o
        "1D741D751D761D771D791D7A1D7B1D7C1D7D1D7E1D7F1D801D811D821D831D84" \o
        "1D851D861D871D881D891D8A1D8B1D8C1D8D1D8E1D8F1D901D911D921D931D94" \o
        "1D951D961D971D981D991D9A1E001E011E021E031E041E051E061E071E081E09" \o
        "1E0A1E0B1E0C1E0D1E0E1E0F1E101E111E121E131E141E151E161E171E181E19" \o
        "1E1A1E1B1E1C1E1D1E1E1E1F1E201E211E221E231E241E251E261E271E281E29" \o
        "1E2A1E2B1E2C1E2D1E2E1E2F1E301E311E321E331E341E351E361E371E381E39" \o
        "1E3A1E3B1E3C1E3D1E3E1E3F1E401E411E421E431E441E451E461E471E481E49" \o
        "1E4A1E4B1E4C1E4D1E4E1E4F1E501E511E521E531E541E551E561E571E581E59" \o
        "1E5A1E5B1E5C1E5D1E5E1E5F1E601E611E621E631E641E651E661E671E681E69" \o
        "1E6A1E6B1E6C1E6D1E6E1E6F1E701E711E721E731E741E751E761E771E781E79" \o
        "1E7A1E7B1E7C1E7D1E7E1E7F1E801E811E821E831E841E851E861E871E881E89" \o
        "1E8A1E8B1E8C1E8D1E8E1E8F1E901E911E921E931E941E951E961E971E981E99" \o
        "1E9A1E9B1E9C1E9D1E9E1E9F1EA01EA11EA21EA31EA41EA51EA61EA71EA81EA9" \o
        "1EAA1EAB1EAC1EAD1EAE1EAF1EB01EB11EB21EB31EB41EB51EB61EB71EB81EB9" \o
        "1EBA1EBB1EBC1EBD1EBE1EBF1EC01EC11EC21EC31EC41EC51EC61EC71EC81EC9" \o
        "1ECA1ECB1ECC1ECD1ECE1ECF1ED01ED11ED21ED31ED41ED51ED61ED71ED81ED9" \o
        "1EDA1EDB1EDC1EDD1EDE1EDF1EE01EE11EE21EE31EE41EE51EE61EE71EE81EE9" \o
        "1EEA1EEB1EEC1EED1EEE1EEF1EF01EF11EF21EF31EF41EF51EF61EF71EF81EF9" \o
        "1EFA1EFB1EFC1EFD1EFE1EFF1F001F011F021F031F041F051F061F071F081F09" \o
        "1F0A1F0B1F0C1F0D1F0E1F0F1F101F111F121F131F141F151F181F191F1A1F1B" \o
        "1F1C1F1D1F201F211F221F231F241F251F261F271F281F291F2A1F2B1F2C1F2D" \o
        "1F2E1F2F1F301F311F321F331F341F351F361F371F381F391F3A1F3B1F3C1F3D" \o
        "1F3E1F3F1F401F411F421F431F441F451F481F491F4A1F4B1F4C1F4D1F501F51" \o
        "1F521F531F541F551F561F571F591F5B1F5D1F5F1F601F611F621F631F641F65" \o
        "1F661F671F681F691F6A1F6B1F6C1F6D1F6E1F6F1F701F711F721F731F741F75" \o
        "1F761F771F781F791F7A1F7B1F7C1F7D1F801F811F821F831F841F851F861F87" \o
        "1F881F891F8A1F8B1F8C1F8D1F8E1F8F1F901F911F921F931F941F951F961F97" \o
        "1F981F991F9A1F9B1F9C1F9D1F9E1F9F1FA01FA11FA21FA31FA41FA51FA61FA7" \o
        "1FA81FA91FAA1FAB1FAC1FAD1FAE1FAF1FB01FB11FB21FB31FB41FB61FB71FB8" \o
        "1FB91FBA1FBB1FBC1FBE1FC21FC31FC41FC61FC71FC81FC91FCA1FCB1FCC1FD0" \o
        "1FD11FD21FD31FD61FD71FD81FD91FDA1FDB1FE01FE11FE21FE31FE41FE51FE6" \o
        "1FE71FE81FE91FEA1FEB1FEC1FF21FF31FF41FF61FF71FF81FF91FFA1FFB1FFC" \o
        "21022107210A210B210C210D210E210F211021112112211321152119211A211B" \o
        "211C211D212421262128212A212B212C212D212F213021312132213321342139" \o
        "213C213D213E213F21452146214721482149214E216021612162216321642165" \o
        "2166216721682169216A216B216C216D216E216F217021712172217321742175" \o
        "2176217721782179217A217B217C217D217E217F2183218424B624B724B824B9" \o
        "24BA24BB24BC24BD24BE24BF24C024C124C224C324C424C524C624C724C824C9" \o
        "24CA24CB24CC24CD24CE24CF24D024D124D224D324D424D524D624D724D824D9" \o
        "24DA24DB24DC24DD24DE24DF24E024E124E224E324E424E524E624E724E824E9" \o
        "2C002C012C022C032C042C052C062C072C082C092C0A2C0B2C0C2C0D2C0E2C0F" \o
        "2C102C112C122C132C142C152C162C172C182C192C1A2C1B2C1C2C1D2C1E2C1F" \o
        "2C202C212C222C232C242C252C262C272C282C292C2A2C2B2C2C2C2D2C2E2C2F" \o
        "2C302C312C322C332C342C352C362C372C382C392C3A2C3B2C3C2C3D2C3E2C3F" \o
        "2C402C412C422C432C442C452C462C472C482C492C4A2C4B2C4C2C4D2C4E2C4F" \o
        "2C502C512C522C532C542C552C562C572C582C592C5A2C5B2C5C2C5D2C5E2C5F" \o
        "2C602C612C622C632C642C652C662C672C682C692C6A2C6B2C6C2C6D2C6E2C6F" \o
        "2C702C712C722C732C742C752C762C772C782C792C7A2C7B2C7E2C7F2C802C81" \o
        "2C822C832C842C852C862C872C882C892C8A2C8B2C8C2C8D2C8E2C8F2C902C91" \o
        "2C922C932C942C952C962C972C982C992C9A2C9B2C9C2C9D2C9E2C9F2CA02CA1" \o
        "2CA22CA32CA42CA52CA62CA72CA82CA92CAA2CAB2CAC2CAD2CAE2CAF2CB02CB1" \o
        "2CB22CB32CB42CB52CB62CB72CB82CB92CBA2CBB2CBC2CBD2CBE2CBF2CC02CC1" \o
        "2CC22CC32CC42CC52CC62CC72CC82CC92CCA2CCB2CCC2CCD2CCE2CCF2CD02CD1" \o
        "2CD22CD32CD42CD52CD62CD72CD82CD92CDA2CDB2CDC2CDD2CDE2CDF2CE02CE1" \o
        "2CE22CE32CE42CEB2CEC2CED2CEE2CF22CF32D002D012D022D032D042D052D06" \o
        "2D072D082D092D0A2D0B2D0C2D0D2D0E2D0F2D102D112D122D132D142D152D16" \o
        "2D172D182D192D1A2D1B2D1C2D1D2D1E2D1F2D202D212D222D232D242D252D27" \o
        "2D2DA640A641A642A643A644A645A646A647A648A649A64AA64BA64CA64DA64E" \o
        "A64FA650A651A652A653A654A655A656A657A658A659A65AA65BA65CA65DA65E" \o
        "A65FA660A661A662A663A664A665A666A667A668A669A66AA66BA66CA66DA680" \o
        "A681A682A683A684A685A686A687A688A689A68AA68BA68CA68DA68EA68FA690" \o
        "A691A692A693A694A695A696A697A698A699A69AA69BA722A723A724A725A726" \o
        "A727A728A729A72AA72BA72CA72DA72EA72FA730A731A732A733A734A735A736" \o
        "A737A738A739A73AA73BA73CA73DA73EA73FA740A741A742A743A744A745A746" \o
        "A747A748A749A74AA74BA74CA74DA74EA74FA750A751A752A753A754A755A756" \o
        "A757A758A759A75AA75BA75CA75DA75EA75FA760A761A762A763A764A765A766" \o
        "A767A768A769A76AA76BA76CA76DA76EA76FA771A772A773A774A775A776A777" \o
        "A778A779A77AA77BA77CA77DA77EA77FA780A781A782A783A784A785A786A787" \o
        "A78BA78CA78DA78EA790A791A792A793A794A795A796A797A798A799A79AA79B" \o
        "A79CA79DA79EA79FA7A0A7A1A7A2A7A3A7A4A7A5A7A6A7A7A7A8A7A9A7AAA7AB" \o
        "A7ACA7ADA7AEA7AFA7B0A7B1A7B2A7B3A7B4A7B5A7B6A7B7A7B8A7B9A7BAA7BB" \o
        "A7BCA7BDA7BEA7BFA7C0A7C1A7C2A7C3A7C4A7C5A7C6A7C7A7C8A7C9A7CAA7CB" \o
        "A7CCA7CDA7CEA7CFA7D0A7D1A7D2A7D3A7D4A7D5A7D6A7D7A7D8A7D9A7DAA7DB" \o
        "A7DCA7F5A7F6A7FAAB30AB31AB32AB33AB34AB35AB36AB37AB38AB39AB3AAB3B" \o
        "AB3CAB3DAB3EAB3FAB40AB41AB42AB43AB44AB45AB46AB47AB48AB49AB4AAB4B" \o
        "AB4CAB4DAB4EAB4FAB50AB51AB52AB53AB54AB55AB56AB57AB58AB59AB5AAB60" \o
        "AB61AB62AB63AB64AB65AB66AB67AB68AB70AB71AB72AB73AB74AB75AB76AB77" \o
        "AB78AB79AB7AAB7BAB7CAB7DAB7EAB7FAB80AB81AB82AB83AB84AB85AB86AB87" \o
        "AB88AB89AB8AAB8BAB8CAB8DAB8EAB8FAB90AB91AB92AB93AB94AB95AB96AB97" \o
        "AB98AB99AB9AAB9BAB9CAB9DAB9EAB9FABA0ABA1ABA2ABA3ABA4ABA5ABA6ABA7" \o
        "ABA8ABA9ABAAABABABACABADABAEABAFABB0ABB1ABB2ABB3ABB4ABB5ABB6ABB7" \o
        "ABB8ABB9ABBAABBBABBCABBDABBEABBFFB00FB01FB02FB03FB04FB05FB06FB13" \o
        "FB14FB15FB16FB17FF21FF22FF23FF24FF25FF26FF27FF28FF29FF2AFF2BFF2C" \o
        "FF2DFF2EFF2FFF30FF31FF32FF33FF34FF35FF36FF37FF38FF39FF3AFF41FF42" \o
        "FF43FF44FF45FF46FF47FF48FF49FF4AFF4BFF4CFF4DFF4EFF4FFF50FF51FF52" \o
        "FF53FF54FF55FF56FF57FF58FF59FF5A"
    IN  {UpperCase[k] : k \in 1..Len(UpperCase)}
        \cup {LowerCase[k] : k \in 1..Len(LowerCase)}
        \cup {HexField(table, 4, k, 1) : k \in 1..(Len(table) \div 4)}

\* the same outside the Basic Multilingual Plane, as <<high surrogate, low
\* surrogate>>; table holds eight hexadecimal digits a letter
CasedPairs ==
    LET table ==
        "D801DC00D801DC01D801DC02D801DC03D801DC04D801DC05D801DC06D801DC07" \o
        "D801DC08D801DC09D801DC0AD801DC0BD801DC0CD801DC0DD801DC0ED801DC0F" \o
        "D801DC10D801DC11D801DC12D801DC13D801DC14D801DC15D801DC16D801DC17" \o
        "D801DC18D801DC19D801DC1AD801DC1BD801DC1CD801DC1DD801DC1ED801DC1F" \o
        "D801DC20D801DC21D801DC22D801DC23D801DC24D801DC25D801DC26D801DC27" \o
        "D801DC28D801DC29D801DC2AD801DC2BD801DC2CD801DC2DD801DC2ED801DC2F" \o
        "D801DC30D801DC31D801DC32D801DC33D801DC34D801DC35D801DC36D801DC37" \o
        "D801DC38D801DC39D801DC3AD801DC3BD801DC3CD801DC3DD801DC3ED801DC3F" \o
        "D801DC40D801DC41D801DC42D801DC43D801DC44D801DC45D801DC46D801DC47" \o
        "D801DC48D801DC49D801DC4AD801DC4BD801DC4CD801DC4DD801DC4ED801DC4F" \o
        "D801DCB0D801DCB1D801DCB2D801DCB3D801DCB4D801DCB5D801DCB6D801DCB7" \o
        "D801DCB8D801DCB9D801DCBAD801DCBBD801DCBCD801DCBDD801DCBED801DCBF" \o
        "D801DCC0D801DCC1D801DCC2D801DCC3D801DCC4D801DCC5D801DCC6D801DCC7" \o
        "D801DCC8D801DCC9D801DCCAD801DCCBD801DCCCD801DCCDD801DCCED801DCCF" \o
        "D801DCD0D801DCD1D801DCD2D801DCD3D801DCD8D801DCD9D801DCDAD801DCDB" \o
        "D801DCDCD801DCDDD801DCDED801DCDFD801DCE0D801DCE1D801DCE2D801DCE3" \o
        "D801DCE4D801DCE5D801DCE6D801DCE7D801DCE8D801DCE9D801DCEAD801DCEB" \o
        "D801DCECD801DCEDD801DCEED801DCEFD801DCF0D801DCF1D801DCF2D801DCF3" \o
        "D801DCF4D801DCF5D801DCF6D801DCF7D801DCF8D801DCF9D801DCFAD801DCFB" \o
        "D801DD70D801DD71D801DD72D801DD73D801DD74D801DD75D801DD76D801DD77" \o
        "D801DD78D801DD79D801DD7AD801DD7CD801DD7DD801DD7ED801DD7FD801DD80" \o
        "D801DD81D801DD82D801DD83D801DD84D801DD85D801DD86D801DD87D801DD88" \o
        "D801DD89D801DD8AD801DD8CD801DD8DD801DD8ED801DD8FD801DD90D801DD91" \o
        "D801DD92D801DD94D801DD95D801DD97D801DD98D801DD99D801DD9AD801DD9B" \o
        "D801DD9CD801DD9DD801DD9ED801DD9FD801DDA0D801DDA1D801DDA3D801DDA4" \o
        "D801DDA5D801DDA6D801DDA7D801DDA8D801DDA9D801DDAAD801DDABD801DDAC" \o
        "D801DDADD801DDAED801DDAFD801DDB0D801DDB1D801DDB3D801DDB4D801DDB5" \o
        "D801DDB6D801DDB7D801DDB8D801DDB9D801DDBBD801DDBCD803DC80D803DC81" \o
        "D803DC82D803DC83D803DC84D803DC85D803DC86D803DC87D803DC88D803DC89" \o
        "D803DC8AD803DC8BD803DC8CD803DC8DD803DC8ED803DC8FD803DC90D803DC91" \o
        "D803DC92D803DC93D803DC94D803DC95D803DC96D803DC97D803DC98D803DC99" \o
        "D803DC9AD803DC9BD803DC9CD803DC9DD803DC9ED803DC9FD803DCA0D803DCA1" \o
        "D803DCA2D803DCA3D803DCA4D803DCA5D803DCA6D803DCA7D803DCA8D803DCA9" \o
        "D803DCAAD803DCABD803DCACD803DCADD803DCAED803DCAFD803DCB0D803DCB1" \o
        "D803DCB2D803DCC0D803DCC1D803DCC2D803DCC3D803DCC4D803DCC5D803DCC6" \o
        "D803DCC7D803DCC8D803DCC9D803DCCAD803DCCBD803DCCCD803DCCDD803DCCE" \o
        "D803DCCFD803DCD0D803DCD1D803DCD2D803DCD3D803DCD4D803DCD5D803DCD6" \o
        "D803DCD7D803DCD8D803DCD9D803DCDAD803DCDBD803DCDCD803DCDDD803DCDE" \o
        "D803DCDFD803DCE0D803DCE1D803DCE2D803DCE3D803DCE4D803DCE5D803DCE6" \o
        "D803DCE7D803DCE8D803DCE9D803DCEAD803DCEBD803DCECD803DCEDD803DCEE" \o
        "D803DCEFD803DCF0D803DCF1D803DCF2D803DD50D803DD51D803DD52D803DD53" \o
        "D803DD54D803DD55D803DD56D803DD57D803DD58D803DD59D803DD5AD803DD5B" \o
        "D803DD5CD803DD5DD803DD5ED803DD5FD803DD60D803DD61D803DD62D803DD63" \o
        "D803DD64D803DD65D803DD70D803DD71D803DD72D803DD73D803DD74D803DD75" \o
        "D803DD76D803DD77D803DD78D803DD79D803DD7AD803DD7BD803DD7CD803DD7D" \o
        "D803DD7ED803DD7FD803DD80D803DD81D803DD82D803DD83D803DD84D803DD85" \o
        "D806DCA0D806DCA1D806DCA2D806DCA3D806DCA4D806DCA5D806DCA6D806DCA7" \o
        "D806DCA8D806DCA9D806DCAAD806DCABD806DCACD806DCADD806DCAED806DCAF" \o
        "D806DCB0D806DCB1D806DCB2D806DCB3D806DCB4D806DCB5D806DCB6D806DCB7" \o
        "D806DCB8D806DCB9D806DCBAD806DCBBD806DCBCD806DCBDD806DCBED806DCBF" \o
        "D806DCC0D806DCC1D806DCC2D806DCC3D806DCC4D806DCC5D806DCC6D806DCC7" \o
        "D806DCC8D806DCC9D806DCCAD806DCCBD806DCCCD806DCCDD806DCCED806DCCF" \o
        "D806DCD0D806DCD1D806DCD2D806DCD3D806DCD4D806DCD5D806DCD6D806DCD7" \o
        "D806DCD8D806DCD9D806DCDAD806DCDBD806DCDCD806DCDDD806DCDED806DCDF" \o
        "D81BDE40D81BDE41D81BDE42D81BDE43D81BDE44D81BDE45D81BDE46D81BDE47" \o
        "D81BDE48D81BDE49D81BDE4AD81BDE4BD81BDE4CD81BDE4DD81BDE4ED81BDE4F" \o
        "D81BDE50D81BDE51D81BDE52D81BDE53D81BDE54D81BDE55D81BDE56D81BDE57" \o
        "D81BDE58D81BDE59D81BDE5AD81BDE5BD81BDE5CD81BDE5DD81BDE5ED81BDE5F" \o
        "D81BDE60D81BDE61D81BDE62D81BDE63D81BDE64D81BDE65D81BDE66D81BDE67" \o
        "D81BDE68D81BDE69D81BDE6AD81BDE6BD81BDE6CD81BDE6DD81BDE6ED81BDE6F" \o
        "D81BDE70D81BDE71D81BDE72D81BDE73D81BDE74D81BDE75D81BDE76D81BDE77" \o
        "D81BDE78D81BDE79D81BDE7AD81BDE7BD81BDE7CD81BDE7DD81BDE7ED81BDE7F" \o
        "D81BDEA0D81BDEA1D81BDEA2D81BDEA3D81BDEA4D81BDEA5D81BDEA6D81BDEA7" \o
        "D81BDEA8D81BDEA9D81BDEAAD81BDEABD81BDEACD81BDEADD81BDEAED81BDEAF" \o
        "D81BDEB0D81BDEB1D81BDEB2D81BDEB3D81BDEB4D81BDEB5D81BDEB6D81BDEB7" \o
        "D81BDEB8D81BDEBBD81BDEBCD81BDEBDD81BDEBED81BDEBFD81BDEC0D81BDEC1" \o
        "D81BDEC2D81BDEC3D81BDEC4D81BDEC5D81BDEC6D81BDEC7D81BDEC8D81BDEC9" \o
        "D81BDECAD81BDECBD81BDECCD81BDECDD81BDECED81BDECFD81BDED0D81BDED1" \o
        "D81BDED2D81BDED3D835DC00D835DC01D835DC02D835DC03D835DC04D835DC05" \o
        "D835DC06D835DC07D835DC08D835DC09D835DC0AD835DC0BD835DC0CD835DC0D" \o
        "D835DC0ED835DC0FD835DC10D835DC11D835DC12D835DC13D835DC14D835DC15" \o
        "D835DC16D835DC17D835DC18D835DC19D835DC1AD835DC1BD835DC1CD835DC1D" \o
        "D835DC1ED835DC1FD835DC20D835DC21D835DC22D835DC23D835DC24D835DC25" \o
        "D835DC26D835DC27D835DC28D835DC29D835DC2AD835DC2BD835DC2CD835DC2D" \o
        "D835DC2ED835DC2FD835DC30D835DC31D835DC32D835DC33D835DC34D835DC35" \o
        "D835DC36D835DC37D835DC38D835DC39D835DC3AD835DC3BD835DC3CD835DC3D" \o
        "D835DC3ED835DC3FD835DC40D835DC41D835DC42D835DC43D835DC44D835DC45" \o
        "D835DC46D835DC47D835DC48D835DC49D835DC4AD835DC4BD835DC4CD835DC4D" \o
        "D835DC4ED835DC4FD835DC50D835DC51D835DC52D835DC53D835DC54D835DC56" \o
        "D835DC57D835DC58D835DC59D835DC5AD835DC5BD835DC5CD835DC5DD835DC5E" \o
        "D835DC5FD835DC60D835DC61D835DC62D835DC63D835DC64D835DC65D835DC66" \o
        "D835DC67D835DC68D835DC69D835DC6AD835DC6BD835DC6CD835DC6DD835DC6E" \o
        "D835DC6FD835DC70D835DC71D835DC72D835DC73D835DC74D835DC75D835DC76" \o
        "D835DC77D835DC78D835DC79D835DC7AD835DC7BD835DC7CD835DC7DD835DC7E" \o
        "D835DC7FD835DC80D835DC81D835DC82D835DC83D835DC84D835DC85D835DC86" \o
        "D835DC87D835DC88D835DC89D835DC8AD835DC8BD835DC8CD835DC8DD835DC8E" \o
        "D835DC8FD835DC90D835DC91D835DC92D835DC93D835DC94D835DC95D835DC96" \o
        "D835DC97D835DC98D835DC99D835DC9AD835DC9BD835DC9CD835DC9ED835DC9F" \o
        "D835DCA2D835DCA5D835DCA6D835DCA9D835DCAAD835DCABD835DCACD835DCAE" \o
        "D835DCAFD835DCB0D835DCB1D835DCB2D835DCB3D835DCB4D835DCB5D835DCB6" \o
        "D835DCB7D835DCB8D835DCB9D835DCBBD835DCBDD835DCBED835DCBFD835DCC0" \o
        "D835DCC1D835DCC2D835DCC3D835DCC5D835DCC6D835DCC7D835DCC8D835DCC9" \o
        "D835DCCAD835DCCBD835DCCCD835DCCDD835DCCED835DCCFD835DCD0D835DCD1" \o
        "D835DCD2D835DCD3D835DCD4D835DCD5D835DCD6D835DCD7D835DCD8D835DCD9" \o
        "D835DCDAD835DCDBD835DCDCD835DCDDD835DCDED835DCDFD835DCE0D835DCE1" \o
        "D835DCE2D835DCE3D835DCE4D835DCE5D835DCE6D835DCE7D835DCE8D835DCE9" \o
        "D835DCEAD835DCEBD835DCECD835DCEDD835DCEED835DCEFD835DCF0D835DCF1" \o
        "D835DCF2D835DCF3D835DCF4D835DCF5D835DCF6D835DCF7D835DCF8D835DCF9" \o
        "D835DCFAD835DCFBD835DCFCD835DCFDD835DCFED835DCFFD835DD00D835DD01" \o
        "D835DD02D835DD03D835DD04D835DD05D835DD07D835DD08D835DD09D835DD0A" \o
        "D835DD0DD835DD0ED835DD0FD835DD10D835DD11D835DD12D835DD13D835DD14" \o
        "D835DD16D835DD17D835DD18D835DD19D835DD1AD835DD1BD835DD1CD835DD1E" \o
        "D835DD1FD835DD20D835DD21D835DD22D835DD23D835DD24D835DD25D835DD26" \o
        "D835DD27D835DD28D835DD29D835DD2AD835DD2BD835DD2CD835DD2DD835DD2E" \o
        "D835DD2FD835DD30D835DD31D835DD32D835DD33D835DD34D835DD35D835DD36" \o
        "D835DD37D835DD38D835DD39D835DD3BD835DD3CD835DD3DD835DD3ED835DD40" \o
        "D835DD41D835DD42D835DD43D835DD44D835DD46D835DD4AD835DD4BD835DD4C" \o
        "D835DD4DD835DD4ED835DD4FD835DD50D835DD52D835DD53D835DD54D835DD55" \o
        "D835DD56D835DD57D835DD58D835DD59D835DD5AD835DD5BD835DD5CD835DD5D" \o
        "D835DD5ED835DD5FD835DD60D835DD61D835DD62D835DD63D835DD64D835DD65" \o
        "D835DD66D835DD67D835DD68D835DD69D835DD6AD835DD6BD835DD6CD835DD6D" \o
        "D835DD6ED835DD6FD835DD70D835DD71D835DD72D835DD73D835DD74D835DD75" \o
        "D835DD76D835DD77D835DD78D835DD79D835DD7AD835DD7BD835DD7CD835DD7D" \o
        "D835DD7ED835DD7FD835DD80D835DD81D835DD82D835DD83D835DD84D835DD85" \o
        "D835DD86D835DD87D835DD88D835DD89D835DD8AD835DD8BD835DD8CD835DD8D" \o
        "D835DD8ED835DD8FD835DD90D835DD91D835DD92D835DD93D835DD94D835DD95" \o
        "D835DD96D835DD97D835DD98D835DD99D835DD9AD835DD9BD835DD9CD835DD9D" \o
        "D835DD9ED835DD9FD835DDA0D835DDA1D835DDA2D835DDA3D835DDA4D835DDA5" \o
        "D835DDA6D835DDA7D835DDA8D835DDA9D835DDAAD835DDABD835DDACD835DDAD" \o
        "D835DDAED835DDAFD835DDB0D835DDB1D835DDB2D835DDB3D835DDB4D835DDB5" \o
        "D835DDB6D835DDB7D835DDB8D835DDB9D835DDBAD835DDBBD835DDBCD835DDBD" \o
        "D835DDBED835DDBFD835DDC0D835DDC1D835DDC2D835DDC3D835DDC4D835DDC5" \o
        "D835DDC6D835DDC7D835DDC8D835DDC9D835DDCAD835DDCBD835DDCCD835DDCD" \o
        "D835DDCED835DDCFD835DDD0D835DDD1D835DDD2D835DDD3D835DDD4D835DDD5" \o
        "D835DDD6D835DDD7D835DDD8D835DDD9D835DDDAD835DDDBD835DDDCD835DDDD" \o
        "D835DDDED835DDDFD835DDE0D835DDE1D835DDE2D835DDE3D835DDE4D835DDE5" \o
        "D835DDE6D835DDE7D835DDE8D835DDE9D835DDEAD835DDEBD835DDECD835DDED" \o
        "D835DDEED835DDEFD835DDF0D835DDF1D835DDF2D835DDF3D835DDF4D835DDF5" \o
        "D835DDF6D835DDF7D835DDF8D835DDF9D835DDFAD835DDFBD835DDFCD835DDFD" \o
        "D835DDFED835DDFFD835DE00D835DE01D835DE02D835DE03D835DE04D835DE05" \o
        "D835DE06D835DE07D835DE08D835DE09D835DE0AD835DE0BD835DE0CD835DE0D" \o
        "D835DE0ED835DE0FD835DE10D835DE11D835DE12D835DE13D835DE14D835DE15" \o
        "D835DE16D835DE17D835DE18D835DE19D835DE1AD835DE1BD835DE1CD835DE1D" \o
        "D835DE1ED835DE1FD835DE20D835DE21D835DE22D835DE23D835DE24D835DE25" \o
        "D835DE26D835DE27D835DE28D835DE29D835DE2AD835DE2BD835DE2CD835DE2D" \o
        "D835DE2ED835DE2FD835DE30D835DE31D835DE32D835DE33D835DE34D835DE35" \o
        "D835DE36D835DE37D835DE38D835DE39D835DE3AD835DE3BD835DE3CD835DE3D" \o
        "D835DE3ED835DE3FD835DE40D835DE41D835DE42D835DE43D835DE44D835DE45" \o
        "D835DE46D835DE47D835DE48D835DE49D835DE4AD835DE4BD835DE4CD835DE4D" \o
        "D835DE4ED835DE4FD835DE50D835DE51D835DE52D835DE53D835DE54D835DE55" \o
        "D835DE56D835DE57D835DE58D835DE59D835DE5AD835DE5BD835DE5CD835DE5D" \o
        "D835DE5ED835DE5FD835DE60D835DE61D835DE62D835DE63D835DE64D835DE65" \o
        "D835DE66D835DE67D835DE68D835DE69D835DE6AD835DE6BD835DE6CD835DE6D" \o
        "D835DE6ED835DE6FD835DE70D835DE71D835DE72D835DE73D835DE74D835DE75" \o
        "D835DE76D835DE77D835DE78D835DE79D835DE7AD835DE7BD835DE7CD835DE7D" \o
        "D835DE7ED835DE7FD835DE80D835DE81D835DE82D835DE83D835DE84D835DE85" \o
        "D835DE86D835DE87D835DE88D835DE89D835DE8AD835DE8BD835DE8CD835DE8D" \o
        "D835DE8ED835DE8FD835DE90D835DE91D835DE92D835DE93D835DE94D835DE95" \o
        "D835DE96D835DE97D835DE98D835DE99D835DE9AD835DE9BD835DE9CD835DE9D" \o
        "D835DE9ED835DE9FD835DEA0D835DEA1D835DEA2D835DEA3D835DEA4D835DEA5" \o
        "D835DEA8D835DEA9D835DEAAD835DEABD835DEACD835DEADD835DEAED835DEAF" \o
        "D835DEB0D835DEB1D835DEB2D835DEB3D835DEB4D835DEB5D835DEB6D835DEB7" \o
        "D835DEB8D835DEB9D835DEBAD835DEBBD835DEBCD835DEBDD835DEBED835DEBF" \o
        "D835DEC0D835DEC2D835DEC3D835DEC4D835DEC5D835DEC6D835DEC7D835DEC8" \o
        "D835DEC9D835DECAD835DECBD835DECCD835DECDD835DECED835DECFD835DED0" \o
        "D835DED1D835DED2D835DED3D835DED4D835DED5D835DED6D835DED7D835DED8" \o
        "D835DED9D835DEDAD835DEDCD835DEDDD835DEDED835DEDFD835DEE0D835DEE1" \o
        "D835DEE2D835DEE3D835DEE4D835DEE5D835DEE6D835DEE7D835DEE8D835DEE9" \o
        "D835DEEAD835DEEBD835DEECD835DEEDD835DEEED835DEEFD835DEF0D835DEF1" \o
        "D835DEF2D835DEF3D835DEF4D835DEF5D835DEF6D835DEF7D835DEF8D835DEF9" \o
        "D835DEFAD835DEFCD835DEFDD835DEFED835DEFFD835DF00D835DF01D835DF02" \o
        "D835DF03D835DF04D835DF05D835DF06D835DF07D835DF08D835DF09D835DF0A" \o
        "D835DF0BD835DF0CD835DF0DD835DF0ED835DF0FD835DF10D835DF11D835DF12" \o
        "D835DF13D835DF14D835DF16D835DF17D835DF18D835DF19D835DF1AD835DF1B" \o
        "D835DF1CD835DF1DD835DF1ED835DF1FD835DF20D835DF21D835DF22D835DF23" \o
        "D835DF24D835DF25D835DF26D835DF27D835DF28D835DF29D835DF2AD835DF2B" \o
        "D835DF2CD835DF2DD835DF2ED835DF2FD835DF30D835DF31D835DF32D835DF33" \o
        "D835DF34D835DF36D835DF37D835DF38D835DF39D835DF3AD835DF3BD835DF3C" \o
        "D835DF3DD835DF3ED835DF3FD835DF40D835DF41D835DF42D835DF43D835DF44" \o
        "D835DF45D835DF46D835DF47D835DF48D835DF49D835DF4AD835DF4BD835DF4C" \o
        "D835DF4DD835DF4ED835DF50D835DF51D835DF52D835DF53D835DF54D835DF55" \o
        "D835DF56D835DF57D835DF58D835DF59D835DF5AD835DF5BD835DF5CD835DF5D" \o
        "D835DF5ED835DF5FD835DF60D835DF61D835DF62D835DF63D835DF64D835DF65" \o
        "D835DF66D835DF67D835DF68D835DF69D835DF6AD835DF6BD835DF6CD835DF6D" \o
        "D835DF6ED835DF70D835DF71D835DF72D835DF73D835DF74D835DF75D835DF76" \o
        "D835DF77D835DF78D835DF79D835DF7AD835DF7BD835DF7CD835DF7DD835DF7E" \o
        "D835DF7FD835DF80D835DF81D835DF82D835DF83D835DF84D835DF85D835DF86" \o
        "D835DF87D835DF88D835DF8AD835DF8BD835DF8CD835DF8DD835DF8ED835DF8F" \o
        "D835DF90D835DF91D835DF92D835DF93D835DF94D835DF95D835DF96D835DF97" \o
        "D835DF98D835DF99D835DF9AD835DF9BD835DF9CD835DF9DD835DF9ED835DF9F" \o
        "D835DFA0D835DFA1D835DFA2D835DFA3D835DFA4D835DFA5D835DFA6D835DFA7" \o
        "D835DFA8D835DFAAD835DFABD835DFACD835DFADD835DFAED835DFAFD835DFB0" \o
        "D835DFB1D835DFB2D835DFB3D835DFB4D835DFB5D835DFB6D835DFB7D835DFB8" \o
        "D835DFB9D835DFBAD835DFBBD835DFBCD835DFBDD835DFBED835DFBFD835DFC0" \o
        "D835DFC1D835DFC2D835DFC4D835DFC5D835DFC6D835DFC7D835DFC8D835DFC9" \o
        "D835DFCAD835DFCBD837DF00D837DF01D837DF02D837DF03D837DF04D837DF05" \o
        "D837DF06D837DF07D837DF08D837DF09D837DF0BD837DF0CD837DF0DD837DF0E" \o
        "D837DF0FD837DF10D837DF11D837DF12D837DF13D837DF14D837DF15D837DF16" \o
        "D837DF17D837DF18D837DF19D837DF1AD837DF1BD837DF1CD837DF1DD837DF1E" \o
        "D837DF25D837DF26D837DF27D837DF28D837DF29D837DF2AD83ADD00D83ADD01" \o
        "D83ADD02D83ADD03D83ADD04D83ADD05D83ADD06D83ADD07D83ADD08D83ADD09" \o
        "D83ADD0AD83ADD0BD83ADD0CD83ADD0DD83ADD0ED83ADD0FD83ADD10D83ADD11" \o
        "D83ADD12D83ADD13D83ADD14D83ADD15D83ADD16D83ADD17D83ADD18D83ADD19" \o
        "D83ADD1AD83ADD1BD83ADD1CD83ADD1DD83ADD1ED83ADD1FD83ADD20D83ADD21" \o
        "D83ADD22D83ADD23D83ADD24D83ADD25D83ADD26D83ADD27D83ADD28D83ADD29" \o
        "D83ADD2AD83ADD2BD83ADD2CD83ADD2DD83ADD2ED83ADD2FD83ADD30D83ADD31" \o
        "D83ADD32D83ADD33D83ADD34D83ADD35D83ADD36D83ADD37D83ADD38D83ADD39" \o
        "D83ADD3AD83ADD3BD83ADD3CD83ADD3DD83ADD3ED83ADD3FD83ADD40D83ADD41" \o
        "D83ADD42D83ADD43D83CDD30D83CDD31D83CDD32D83CDD33D83CDD34D83CDD35" \o
        "D83CDD36D83CDD37D83CDD38D83CDD39D83CDD3AD83CDD3BD83CDD3CD83CDD3D" \o
        "D83CDD3ED83CDD3FD83CDD40D83CDD41D83CDD42D83CDD43D83CDD44D83CDD45" \o
        "D83CDD46D83CDD47D83CDD48D83CDD49D83CDD50D83CDD51D83CDD52D83CDD53" \o
        "D83CDD54D83CDD55D83CDD56D83CDD57D83CDD58D83CDD59D83CDD5AD83CDD5B" \o
        "D83CDD5CD83CDD5DD83CDD5ED83CDD5FD83CDD60D83CDD61D83CDD62D83CDD63" \o
        "D83CDD64D83CDD65D83CDD66D83CDD67D83CDD68D83CDD69D83CDD70D83CDD71" \o
        "D83CDD72D83CDD73D83CDD74D83CDD75D83CDD76D83CDD77D83CDD78D83CDD79" \o
        "D83CDD7AD83CDD7BD83CDD7CD83CDD7DD83CDD7ED83CDD7FD83CDD80D83CDD81" \o
        "D83CDD82D83CDD83D83CDD84D83CDD85D83CDD86D83CDD87D83CDD88D83CDD89"
    IN  {<<HexField(table, 8, k, 1), HexField(table, 8, k, 2)>> :
            k \in 1..(Len(table) \div 8)}

\* the code units that are case-ignorable
IgnorableUnits ==
    LET table ==
        "00A800AD00AF00B400B700B802B002B102B202B302B402B502B602B702B802B9" \o
        "02BA02BB02BC02BD02BE02BF02C002C102C202C302C402C502C602C702C802C9" \o
        "02CA02CB02CC02CD02CE02CF02D002D102D202D302D402D502D602D702D802D9" \o
        "02DA02DB02DC02DD02DE02DF02E002E102E202E302E402E502E602E702E802E9" \o
        "02EA02EB02EC02ED02EE02EF02F002F102F202F302F402F502F602F702F802F9" \o
        "02FA02FB02FC02FD02FE02FF0300030103020303030403050306030703080309" \o
        "030A030B030C030D030E030F0310031103120313031403150316031703180319" \o
        "031A031B031C031D031E031F0320032103220323032403250326032703280329" \o
        "032A032B032C032D032E032F0330033103320333033403350336033703380339" \o
        "033A033B033C033D033E033F0340034103420343034403450346034703480349" \o
        "034A034B034C034D034E034F0350035103520353035403550356035703580359" \o
        "035A035B035C035D035E035F0360036103620363036403650366036703680369" \o
        "036A036B036C036D036E036F03740375037A0384038503870483048404850486" \o
        "0487048804890559055F059105920593059405950596059705980599059A059B" \o
        "059C059D059E059F05A005A105A205A305A405A505A605A705A805A905AA05AB" \o
        "05AC05AD05AE05AF05B005B105B205B305B405B505B605B705B805B905BA05BB" \o
        "05BC05BD05BF05C105C205C405C505C705F40600060106020603060406050610" \o
        "061106120613061406150616061706180619061A061C0640064B064C064D064E" \o
        "064F0650065106520653065406550656065706580659065A065B065C065D065E" \o
        "065F067006D606D706D806D906DA06DB06DC06DD06DF06E006E106E206E306E4" \o
        "06E506E606E706E806EA06EB06EC06ED070F0711073007310732073307340735" \o
        "0736073707380739073A073B073C073D073E073F074007410742074307440745" \o
        "0746074707480749074A07A607A707A807A907AA07AB07AC07AD07AE07AF07B0" \o
        "07EB07EC07ED07EE07EF07F007F107F207F307F407F507FA07FD081608170818" \o
        "0819081A081B081C081D081E081F082008210822082308240825082608270828" \o
        "0829082A082B082C082D0859085A085B088808900891089708980899089A089B" \o
        "089C089D089E089F08C908CA08CB08CC08CD08CE08CF08D008D108D208D308D4" \o
        "08D508D608D708D808D908DA08DB08DC08DD08DE08DF08E008E108E208E308E4" \o
        "08E508E608E708E808E908EA08EB08EC08ED08EE08EF08F008F108F208F308F4" \o
        "08F508F608F708F808F908FA08FB08FC08FD08FE08FF090009010902093A093C" \o
        "09410942094309440945094609470948094D0951095209530954095509560957" \o
        "096209630971098109BC09C109C209C309C409CD09E209E309FE0A010A020A3C" \o
        "0A410A420A470A480A4B0A4C0A4D0A510A700A710A750A810A820ABC0AC10AC2" \o
        "0AC30AC40AC50AC70AC80ACD0AE20AE30AFA0AFB0AFC0AFD0AFE0AFF0B010B3C" \o
        "0B3F0B410B420B430B440B4D0B550B560B620B630B820BC00BCD0C000C040C3C" \o
        "0C3E0C3F0C400C460C470C480C4A0C4B0C4C0C4D0C550C560C620C630C810CBC" \o
        "0CBF0CC60CCC0CCD0CE20CE30D000D010D3B0D3C0D410D420D430D440D4D0D62" \o
        "0D630D810DCA0DD20DD30DD40DD60E310E340E350E360E370E380E390E3A0E46" \o
        "0E470E480E490E4A0E4B0E4C0E4D0E4E0EB10EB40EB50EB60EB70EB80EB90EBA" \o
        "0EBB0EBC0EC60EC80EC90ECA0ECB0ECC0ECD0ECE0F180F190F350F370F390F71" \o
        "0F720F730F740F750F760F770F780F790F7A0F7B0F7C0F7D0F7E0F800F810F82" \o
        "0F830F840F860F870F8D0F8E0F8F0F900F910F920F930F940F950F960F970F99" \o
        "0F9A0F9B0F9C0F9D0F9E0F9F0FA00FA10FA20FA30FA40FA50FA60FA70FA80FA9" \o
        "0FAA0FAB0FAC0FAD0FAE0FAF0FB00FB10FB20FB30FB40FB50FB60FB70FB80FB9" \o
        "0FBA0FBB0FBC0FC6102D102E102F10301032103310341035103610371039103A" \o
        "103D103E10581059105E105F10601071107210731074108210851086108D109D" \o
        "10FC135D135E135F17121713171417321733175217531772177317B417B517B7" \o
        "17B817B917BA17BB17BC17BD17C617C917CA17CB17CC17CD17CE17CF17D017D1" \o
        "17D217D317D717DD180B180C180D180E180F18431885188618A9192019211922" \o
        "1927192819321939193A193B1A171A181A1B1A561A581A591A5A1A5B1A5C1A5D" \o
        "1A5E1A601A621A651A661A671A681A691A6A1A6B1A6C1A731A741A751A761A77" \o
        "1A781A791A7A1A7B1A7C1A7F1AA71AB01AB11AB21AB31AB41AB51AB61AB71AB8" \o
        "1AB91ABA1ABB1ABC1ABD1ABE1ABF1AC01AC11AC21AC31AC41AC51AC61AC71AC8" \o
        "1AC91ACA1ACB1ACC1ACD1ACE1ACF1AD01AD11AD21AD31AD41AD51AD61AD71AD8" \o
        "1AD91ADA1ADB1ADC1ADD1AE01AE11AE21AE31AE41AE51AE61AE71AE81AE91AEA" \o
        "1AEB1B001B011B021B031B341B361B371B381B391B3A1B3C1B421B6B1B6C1B6D" \o
        "1B6E1B6F1B701B711B721B731B801B811BA21BA31BA41BA51BA81BA91BAB1BAC" \o
        "1BAD1BE61BE81BE91BED1BEF1BF01BF11C2C1C2D1C2E1C2F1C301C311C321C33" \o
        "1C361C371C781C791C7A1C7B1C7C1C7D1CD01CD11CD21CD41CD51CD61CD71CD8" \o
        "1CD91CDA1CDB1CDC1CDD1CDE1CDF1CE01CE21CE31CE41CE51CE61CE71CE81CED" \o
        "1CF41CF81CF91D2C1D2D1D2E1D2F1D301D311D321D331D341D351D361D371D38" \o
        "1D391D3A1D3B1D3C1D3D1D3E1D3F1D401D411D421D431D441D451D461D471D48" \o
        "1D491D4A1D4B1D4C1D4D1D4E1D4F1D501D511D521D531D541D551D561D571D58" \o
        "1D591D5A1D5B1D5C1D5D1D5E1D5F1D601D611D621D631D641D651D661D671D68" \o
        "1D691D6A1D781D9B1D9C1D9D1D9E1D9F1DA01DA11DA21DA31DA41DA51DA61DA7" \o
        "1DA81DA91DAA1DAB1DAC1DAD1DAE1DAF1DB01DB11DB21DB31DB41DB51DB61DB7" \o
        "1DB81DB91DBA1DBB1DBC1DBD1DBE1DBF1DC01DC11DC21DC31DC41DC51DC61DC7" \o
        "1DC81DC91DCA1DCB1DCC1DCD1DCE1DCF1DD01DD11DD21DD31DD41DD51DD61DD7" \o
        "1DD81DD91DDA1DDB1DDC1DDD1DDE1DDF1DE01DE11DE21DE31DE41DE51DE61DE7" \o
        "1DE81DE91DEA1DEB1DEC1DED1DEE1DEF1DF01DF11DF21DF31DF41DF51DF61DF7" \o
        "1DF81DF91DFA1DFB1DFC1DFD1DFE1DFF1FBD1FBF1FC01FC11FCD1FCE1FCF1FDD" \o
        "1FDE1FDF1FED1FEE1FEF1FFD1FFE200B200C200D200E200F2018201920242027" \o
        "202A202B202C202D202E206020612062206320642066206720682069206A206B" \o
        "206C206D206E206F2071207F2090209120922093209420952096209720982099" \o
        "209A209B209C20D020D120D220D320D420D520D620D720D820D920DA20DB20DC" \o
        "20DD20DE20DF20E020E120E220E320E420E520E620E720E820E920EA20EB20EC" \o
        "20ED20EE20EF20F02C7C2C7D2CEF2CF02CF12D6F2D7F2DE02DE12DE22DE32DE4" \o
        "2DE52DE62DE72DE82DE92DEA2DEB2DEC2DED2DEE2DEF2DF02DF12DF22DF32DF4" \o
        "2DF52DF62DF72DF82DF92DFA2DFB2DFC2DFD2DFE2DFF2E2F3005302A302B302C" \o
        "302D30313032303330343035303B3099309A309B309C309D309E30FC30FD30FE" \o
        "A015A4F8A4F9A4FAA4FBA4FCA4FDA60CA66FA670A671A672A674A675A676A677" \o
        "A678A679A67AA67BA67CA67DA67FA69CA69DA69EA69FA6F0A6F1A700A701A702" \o
        "A703A704A705A706A707A708A709A70AA70BA70CA70DA70EA70FA710A711A712" \o
        "A713A714A715A716A717A718A719A71AA71BA71CA71DA71EA71FA720A721A770" \o
        "A788A789A78AA7F1A7F2A7F3A7F4A7F8A7F9A802A806A80BA825A826A82CA8C4" \o
        "A8C5A8E0A8E1A8E2A8E3A8E4A8E5A8E6A8E7A8E8A8E9A8EAA8EBA8ECA8EDA8EE" \o
        "A8EFA8F0A8F1A8FFA926A927A928A929A92AA92BA92CA92DA947A948A949A94A" \o
        "A94BA94CA94DA94EA94FA950A951A980A981A982A9B3A9B6A9B7A9B8A9B9A9BC" \o
        "A9BDA9CFA9E5A9E6AA29AA2AAA2BAA2CAA2DAA2EAA31AA32AA35AA36AA43AA4C" \o
        "AA70AA7CAAB0AAB2AAB3AAB4AAB7AAB8AABEAABFAAC1AADDAAECAAEDAAF3AAF4" \o
        "AAF6AB5BAB5CAB5DAB5EAB5FAB69AB6AAB6BABE5ABE8ABEDFB1EFBB2FBB3FBB4" \o
        "FBB5FBB6FBB7FBB8FBB9FBBAFBBBFBBCFBBDFBBEFBBFFBC0FBC1FBC2FE00FE01" \o
        "FE02FE03FE04FE05FE06FE07FE08FE09FE0AFE0BFE0CFE0DFE0EFE0FFE13FE20" \o
        "FE21FE22FE23FE24FE25FE26FE27FE28FE29FE2AFE2BFE2CFE2DFE2EFE2FFE52" \o
        "FE55FEFFFF07FF0EFF1AFF3EFF40FF70FF9EFF9FFFE3FFF9FFFAFFFB"
    IN  { "'", ".", ":", "^", "U+0060" }
        \cup {HexField(table, 4, k, 1) : k \in 1..(Len(table) \div 4)}

\* the case-ignorable characters outside the Basic Multilingual Plane
IgnorablePairs ==
    LET table ==
        "D800DDFDD800DEE0D800DF76D800DF77D800DF78D800DF79D800DF7AD801DF80" \o
        "D801DF81D801DF82D801DF83D801DF84D801DF85D801DF87D801DF88D801DF89" \o
        "D801DF8AD801DF8BD801DF8CD801DF8DD801DF8ED801DF8FD801DF90D801DF91" \o
        "D801DF92D801DF93D801DF94D801DF95D801DF96D801DF97D801DF98D801DF99" \o
        "D801DF9AD801DF9BD801DF9CD801DF9DD801DF9ED801DF9FD801DFA0D801DFA1" \o
        "D801DFA2D801DFA3D801DFA4D801DFA5D801DFA6D801DFA7D801DFA8D801DFA9" \o
        "D801DFAAD801DFABD801DFACD801DFADD801DFAED801DFAFD801DFB0D801DFB2" \o
        "D801DFB3D801DFB4D801DFB5D801DFB6D801DFB7D801DFB8D801DFB9D801DFBA" \o
        "D802DE01D802DE02D802DE03D802DE05D802DE06D802DE0CD802DE0DD802DE0E" \o
        "D802DE0FD802DE38D802DE39D802DE3AD802DE3FD802DEE5D802DEE6D803DD24" \o
        "D803DD25D803DD26D803DD27D803DD4ED803DD69D803DD6AD803DD6BD803DD6C" \o
        "D803DD6DD803DD6FD803DEABD803DEACD803DEC5D803DEFAD803DEFBD803DEFC" \o
        "D803DEFDD803DEFED803DEFFD803DF46D803DF47D803DF48D803DF49D803DF4A" \o
        "D803DF4BD803DF4CD803DF4DD803DF4ED803DF4FD803DF50D803DF82D803DF83" \o
        "D803DF84D803DF85D804DC01D804DC38D804DC39D804DC3AD804DC3BD804DC3C" \o
        "D804DC3DD804DC3ED804DC3FD804DC40D804DC41D804DC42D804DC43D804DC44" \o
        "D804DC45D804DC46D804DC70D804DC73D804DC74D804DC7FD804DC80D804DC81" \o
        "D804DCB3D804DCB4D804DCB5D804DCB6D804DCB9D804DCBAD804DCBDD804DCC2" \o
        "D804DCCDD804DD00D804DD01D804DD02D804DD27D804DD28D804DD29D804DD2A" \o
        "D804DD2BD804DD2DD804DD2ED804DD2FD804DD30D804DD31D804DD32D804DD33" \o
        "D804DD34D804DD73D804DD80D804DD81D804DDB6D804DDB7D804DDB8D804DDB9" \o
        "D804DDBAD804DDBBD804DDBCD804DDBDD804DDBED804DDC9D804DDCAD804DDCB" \o
        "D804DDCCD804DDCFD804DE2FD804DE30D804DE31D804DE34D804DE36D804DE37" \o
        "D804DE3ED804DE41D804DEDFD804DEE3D804DEE4D804DEE5D804DEE6D804DEE7" \o
        "D804DEE8D804DEE9D804DEEAD804DF00D804DF01D804DF3BD804DF3CD804DF40" \o
        "D804DF66D804DF67D804DF68D804DF69D804DF6AD804DF6BD804DF6CD804DF70" \o
        "D804DF71D804DF72D804DF73D804DF74D804DFBBD804DFBCD804DFBDD804DFBE" \o
        "D804DFBFD804DFC0D804DFCED804DFD0D804DFD2D804DFE1D804DFE2D805DC38" \o
        "D805DC39D805DC3AD805DC3BD805DC3CD805DC3DD805DC3ED805DC3FD805DC42" \o
        "D805DC43D805DC44D805DC46D805DC5ED805DCB3D805DCB4D805DCB5D805DCB6" \o
        "D805DCB7D805DCB8D805DCBAD805DCBFD805DCC0D805DCC2D805DCC3D805DDB2" \o
        "D805DDB3D805DDB4D805DDB5D805DDBCD805DDBDD805DDBFD805DDC0D805DDDC" \o
        "D805DDDDD805DE33D805DE34D805DE35D805DE36D805DE37D805DE38D805DE39" \o
        "D805DE3AD805DE3DD805DE3FD805DE40D805DEABD805DEADD805DEB0D805DEB1" \o
        "D805DEB2D805DEB3D805DEB4D805DEB5D805DEB7D805DF1DD805DF1FD805DF22" \o
        "D805DF23D805DF24D805DF25D805DF27D805DF28D805DF29D805DF2AD805DF2B" \o
        "D806DC2FD806DC30D806DC31D806DC32D806DC33D806DC34D806DC35D806DC36" \o
        "D806DC37D806DC39D806DC3AD806DD3BD806DD3CD806DD3ED806DD43D806DDD4" \o
        "D806DDD5D806DDD6D806DDD7D806DDDAD806DDDBD806DDE0D806DE01D806DE02" \o
        "D806DE03D806DE04D806DE05D806DE06D806DE07D806DE08D806DE09D806DE0A" \o
        "D806DE33D806DE34D806DE35D806DE36D806DE37D806DE38D806DE3BD806DE3C" \o
        "D806DE3DD806DE3ED806DE47D806DE51D806DE52D806DE53D806DE54D806DE55" \o
        "D806DE56D806DE59D806DE5AD806DE5BD806DE8AD806DE8BD806DE8CD806DE8D" \o
        "D806DE8ED806DE8FD806DE90D806DE91D806DE92D806DE93D806DE94D806DE95" \o
        "D806DE96D806DE98D806DE99D806DF60D806DF62D806DF63D806DF64D806DF66" \o
        "D807DC30D807DC31D807DC32D807DC33D807DC34D807DC35D807DC36D807DC38" \o
        "D807DC39D807DC3AD807DC3BD807DC3CD807DC3DD807DC3FD807DC92D807DC93" \o
        "D807DC94D807DC95D807DC96D807DC97D807DC98D807DC99D807DC9AD807DC9B" \o
        "D807DC9CD807DC9DD807DC9ED807DC9FD807DCA0D807DCA1D807DCA2D807DCA3" \o
        "D807DCA4D807DCA5D807DCA6D807DCA7D807DCAAD807DCABD807DCACD807DCAD" \o
        "D807DCAED807DCAFD807DCB0D807DCB2D807DCB3D807DCB5D807DCB6D807DD31" \o
        "D807DD32D807DD33D807DD34D807DD35D807DD36D807DD3AD807DD3CD807DD3D" \o
        "D807DD3FD807DD40D807DD41D807DD42D807DD43D807DD44D807DD45D807DD47" \o
        "D807DD90D807DD91D807DD95D807DD97D807DDD9D807DEF3D807DEF4D807DF00" \o
        "D807DF01D807DF36D807DF37D807DF38D807DF39D807DF3AD807DF40D807DF42" \o
        "D807DF5AD80DDC30D80DDC31D80DDC32D80DDC33D80DDC34D80DDC35D80DDC36" \o
        "D80DDC37D80DDC38D80DDC39D80DDC3AD80DDC3BD80DDC3CD80DDC3DD80DDC3E" \o
        "D80DDC3FD80DDC40D80DDC47D80DDC48D80DDC49D80DDC4AD80DDC4BD80DDC4C" \o
        "D80DDC4DD80DDC4ED80DDC4FD80DDC50D80DDC51D80DDC52D80DDC53D80DDC54" \o
        "D80DDC55D818DD1ED818DD1FD818DD20D818DD21D818DD22D818DD23D818DD24" \o
        "D818DD25D818DD26D818DD27D818DD28D818DD29D818DD2DD818DD2ED818DD2F" \o
        "D81ADEF0D81ADEF1D81ADEF2D81ADEF3D81ADEF4D81ADF30D81ADF31D81ADF32" \o
        "D81ADF33D81ADF34D81ADF35D81ADF36D81ADF40D81ADF41D81ADF42D81ADF43" \o
        "D81BDD40D81BDD41D81BDD42D81BDD6BD81BDD6CD81BDF4FD81BDF8FD81BDF90" \o
        "D81BDF91D81BDF92D81BDF93D81BDF94D81BDF95D81BDF96D81BDF97D81BDF98" \o
        "D81BDF99D81BDF9AD81BDF9BD81BDF9CD81BDF9DD81BDF9ED81BDF9FD81BDFE0" \o
        "D81BDFE1D81BDFE3D81BDFE4D81BDFF2D81BDFF3D82BDFF0D82BDFF1D82BDFF2" \o
        "D82BDFF3D82BDFF5D82BDFF6D82BDFF7D82BDFF8D82BDFF9D82BDFFAD82BDFFB" \o
        "D82BDFFDD82BDFFED82FDC9DD82FDC9ED82FDCA0D82FDCA1D82FDCA2D82FDCA3" \o
        "D833DF00D833DF01D833DF02D833DF03D833DF04D833DF05D833DF06D833DF07" \o
        "D833DF08D833DF09D833DF0AD833DF0BD833DF0CD833DF0DD833DF0ED833DF0F" \o
        "D833DF10D833DF11D833DF12D833DF13D833DF14D833DF15D833DF16D833DF17" \o
        "D833DF18D833DF19D833DF1AD833DF1BD833DF1CD833DF1DD833DF1ED833DF1F" \o
        "D833DF20D833DF21D833DF22D833DF23D833DF24D833DF25D833DF26D833DF27" \o
        "D833DF28D833DF29D833DF2AD833DF2BD833DF2CD833DF2DD833DF30D833DF31" \o
        "D833DF32D833DF33D833DF34D833DF35D833DF36D833DF37D833DF38D833DF39" \o
        "D833DF3AD833DF3BD833DF3CD833DF3DD833DF3ED833DF3FD833DF40D833DF41" \o
        "D833DF42D833DF43D833DF44D833DF45D833DF46D834DD67D834DD68D834DD69" \o
        "D834DD73D834DD74D834DD75D834DD76D834DD77D834DD78D834DD79D834DD7A" \o
        "D834DD7BD834DD7CD834DD7DD834DD7ED834DD7FD834DD80D834DD81D834DD82" \o
        "D834DD85D834DD86D834DD87D834DD88D834DD89D834DD8AD834DD8BD834DDAA" \o
        "D834DDABD834DDACD834DDADD834DE42D834DE43D834DE44D836DE00D836DE01" \o
        "D836DE02D836DE03D836DE04D836DE05D836DE06D836DE07D836DE08D836DE09" \o
        "D836DE0AD836DE0BD836DE0CD836DE0DD836DE0ED836DE0FD836DE10D836DE11" \o
        "D836DE12D836DE13D836DE14D836DE15D836DE16D836DE17D836DE18D836DE19" \o
        "D836DE1AD836DE1BD836DE1CD836DE1DD836DE1ED836DE1FD836DE20D836DE21" \o
        "D836DE22D836DE23D836DE24D836DE25D836DE26D836DE27D836DE28D836DE29" \o
        "D836DE2AD836DE2BD836DE2CD836DE2DD836DE2ED836DE2FD836DE30D836DE31" \o
        "D836DE32D836DE33D836DE34D836DE35D836DE36D836DE3BD836DE3CD836DE3D" \o
        "D836DE3ED836DE3FD836DE40D836DE41D836DE42D836DE43D836DE44D836DE45" \o
        "D836DE46D836DE47D836DE48D836DE49D836DE4AD836DE4BD836DE4CD836DE4D" \o
        "D836DE4ED836DE4FD836DE50D836DE51D836DE52D836DE53D836DE54D836DE55" \o
        "D836DE56D836DE57D836DE58D836DE59D836DE5AD836DE5BD836DE5CD836DE5D" \o
        "D836DE5ED836DE5FD836DE60D836DE61D836DE62D836DE63D836DE64D836DE65" \o
        "D836DE66D836DE67D836DE68D836DE69D836DE6AD836DE6BD836DE6CD836DE75" \o
        "D836DE84D836DE9BD836DE9CD836DE9DD836DE9ED836DE9FD836DEA1D836DEA2" \o
        "D836DEA3D836DEA4D836DEA5D836DEA6D836DEA7D836DEA8D836DEA9D836DEAA" \o
        "D836DEABD836DEACD836DEADD836DEAED836DEAFD838DC00D838DC01D838DC02" \o
        "D838DC03D838DC04D838DC05D838DC06D838DC08D838DC09D838DC0AD838DC0B" \o
        "D838DC0CD838DC0DD838DC0ED838DC0FD838DC10D838DC11D838DC12D838DC13" \o
        "D838DC14D838DC15D838DC16D838DC17D838DC18D838DC1BD838DC1CD838DC1D" \o
        "D838DC1ED838DC1FD838DC20D838DC21D838DC23D838DC24D838DC26D838DC27" \o
        "D838DC28D838DC29D838DC2AD838DC30D838DC31D838DC32D838DC33D838DC34" \o
        "D838DC35D838DC36D838DC37D838DC38D838DC39D838DC3AD838DC3BD838DC3C" \o
        "D838DC3DD838DC3ED838DC3FD838DC40D838DC41D838DC42D838DC43D838DC44" \o
        "D838DC45D838DC46D838DC47D838DC48D838DC49D838DC4AD838DC4BD838DC4C" \o
        "D838DC4DD838DC4ED838DC4FD838DC50D838DC51D838DC52D838DC53D838DC54" \o
        "D838DC55D838DC56D838DC57D838DC58D838DC59D838DC5AD838DC5BD838DC5C" \o
        "D838DC5DD838DC5ED838DC5FD838DC60D838DC61D838DC62D838DC63D838DC64" \o
        "D838DC65D838DC66D838DC67D838DC68D838DC69D838DC6AD838DC6BD838DC6C" \o
        "D838DC6DD838DC8FD838DD30D838DD31D838DD32D838DD33D838DD34D838DD35" \o
        "D838DD36D838DD37D838DD38D838DD39D838DD3AD838DD3BD838DD3CD838DD3D" \o
        "D838DEAED838DEECD838DEEDD838DEEED838DEEFD839DCEBD839DCECD839DCED" \o
        "D839DCEED839DCEFD839DDEED839DDEFD839DEE3D839DEE6D839DEEED839DEEF" \o
        "D839DEF5D839DEFFD83ADCD0D83ADCD1D83ADCD2D83ADCD3D83ADCD4D83ADCD5" \o
        "D83ADCD6D83ADD44D83ADD45D83ADD46D83ADD47D83ADD48D83ADD49D83ADD4A" \o
        "D83ADD4BD83CDFFBD83CDFFCD83CDFFDD83CDFFED83CDFFFDB40DC01DB40DC20" \o
        "DB40DC21DB40DC22DB40DC23DB40DC24DB40DC25DB40DC26DB40DC27DB40DC28" \o
        "DB40DC29DB40DC2ADB40DC2BDB40DC2CDB40DC2DDB40DC2EDB40DC2FDB40DC30" \o
        "DB40DC31DB40DC32DB40DC33DB40DC34DB40DC35DB40DC36DB40DC37DB40DC38" \o
        "DB40DC39DB40DC3ADB40DC3BDB40DC3CDB40DC3DDB40DC3EDB40DC3FDB40DC40" \o
        "DB40DC41DB40DC42DB40DC43DB40DC44DB40DC45DB40DC46DB40DC47DB40DC48" \o
        "DB40DC49DB40DC4ADB40DC4BDB40DC4CDB40DC4DDB40DC4EDB40DC4FDB40DC50" \o
        "DB40DC51DB40DC52DB40DC53DB40DC54DB40DC55DB40DC56DB40DC57DB40DC58" \o
        "DB40DC59DB40DC5ADB40DC5BDB40DC5CDB40DC5DDB40DC5EDB40DC5FDB40DC60" \o
        "DB40DC61DB40DC62DB40DC63DB40DC64DB40DC65DB40DC66DB40DC67DB40DC68" \o
        "DB40DC69DB40DC6ADB40DC6BDB40DC6CDB40DC6DDB40DC6EDB40DC6FDB40DC70" \o
        "DB40DC71DB40DC72DB40DC73DB40DC74DB40DC75DB40DC76DB40DC77DB40DC78" \o
        "DB40DC79DB40DC7ADB40DC7BDB40DC7CDB40DC7DDB40DC7EDB40DC7FDB40DD00" \o
        "DB40DD01DB40DD02DB40DD03DB40DD04DB40DD05DB40DD06DB40DD07DB40DD08" \o
        "DB40DD09DB40DD0ADB40DD0BDB40DD0CDB40DD0DDB40DD0EDB40DD0FDB40DD10" \o
        "DB40DD11DB40DD12DB40DD13DB40DD14DB40DD15DB40DD16DB40DD17DB40DD18" \o
        "DB40DD19DB40DD1ADB40DD1BDB40DD1CDB40DD1DDB40DD1EDB40DD1FDB40DD20" \o
        "DB40DD21DB40DD22DB40DD23DB40DD24DB40DD25DB40DD26DB40DD27DB40DD28" \o
        "DB40DD29DB40DD2ADB40DD2BDB40DD2CDB40DD2DDB40DD2EDB40DD2FDB40DD30" \o
        "DB40DD31DB40DD32DB40DD33DB40DD34DB40DD35DB40DD36DB40DD37DB40DD38" \o
        "DB40DD39DB40DD3ADB40DD3BDB40DD3CDB40DD3DDB40DD3EDB40DD3FDB40DD40" \o
        "DB40DD41DB40DD42DB40DD43DB40DD44DB40DD45DB40DD46DB40DD47DB40DD48" \o
        "DB40DD49DB40DD4ADB40DD4BDB40DD4CDB40DD4DDB40DD4EDB40DD4FDB40DD50" \o
        "DB40DD51DB40DD52DB40DD53DB40DD54DB40DD55DB40DD56DB40DD57DB40DD58" \o
        "DB40DD59DB40DD5ADB40DD5BDB40DD5CDB40DD5DDB40DD5EDB40DD5FDB40DD60" \o
        "DB40DD61DB40DD62DB40DD63DB40DD64DB40DD65DB40DD66DB40DD67DB40DD68" \o
        "DB40DD69DB40DD6ADB40DD6BDB40DD6CDB40DD6DDB40DD6EDB40DD6FDB40DD70" \o
        "DB40DD71DB40DD72DB40DD73DB40DD74DB40DD75DB40DD76DB40DD77DB40DD78" \o
        "DB40DD79DB40DD7ADB40DD7BDB40DD7CDB40DD7DDB40DD7EDB40DD7FDB40DD80" \o
        "DB40DD81DB40DD82DB40DD83DB40DD84DB40DD85DB40DD86DB40DD87DB40DD88" \o
        "DB40DD89DB40DD8ADB40DD8BDB40DD8CDB40DD8DDB40DD8EDB40DD8FDB40DD90" \o
        "DB40DD91DB40DD92DB40DD93DB40DD94DB40DD95DB40DD96DB40DD97DB40DD98" \o
        "DB40DD99DB40DD9ADB40DD9BDB40DD9CDB40DD9DDB40DD9EDB40DD9FDB40DDA0" \o
        "DB40DDA1DB40DDA2DB40DDA3DB40DDA4DB40DDA5DB40DDA6DB40DDA7DB40DDA8" \o
        "DB40DDA9DB40DDAADB40DDABDB40DDACDB40DDADDB40DDAEDB40DDAFDB40DDB0" \o
        "DB40DDB1DB40DDB2DB40DDB3DB40DDB4DB40DDB5DB40DDB6DB40DDB7DB40DDB8" \o
        "DB40DDB9DB40DDBADB40DDBBDB40DDBCDB40DDBDDB40DDBEDB40DDBFDB40DDC0" \o
        "DB40DDC1DB40DDC2DB40DDC3DB40DDC4DB40DDC5DB40DDC6DB40DDC7DB40DDC8" \o
        "DB40DDC9DB40DDCADB40DDCBDB40DDCCDB40DDCDDB40DDCEDB40DDCFDB40DDD0" \o
        "DB40DDD1DB40DDD2DB40DDD3DB40DDD4DB40DDD5DB40DDD6DB40DDD7DB40DDD8" \o
        "DB40DDD9DB40DDDADB40DDDBDB40DDDCDB40DDDDDB40DDDEDB40DDDFDB40DDE0" \o
        "DB40DDE1DB40DDE2DB40DDE3DB40DDE4DB40DDE5DB40DDE6DB40DDE7DB40DDE8" \o
        "DB40DDE9DB40DDEADB40DDEBDB40DDECDB40DDEDDB40DDEEDB40DDEF"
    IN  {<<HexField(table, 8, k, 1), HexField(table, 8, k, 2)>> :
            k \in 1..(Len(table) \div 8)}

\* what each of them becomes
NonAsciiLowerOf ==
    LET entries == {<<HexField(NonAsciiLowerings, 8, k, 1),
                      HexField(NonAsciiLowerings, 8, k, 2)>> :
                        k \in 1..(Len(NonAsciiLowerings) \div 8)}
    IN  [c \in {e[1] : e \in entries} |-> (CHOOSE e \in entries : e[1] = c)[2]]

\* the low surrogate of the lower-case letter
AstralLowerOf ==
    LET entries == {<<HexField(AstralLowerings, 12, k, 1),
                      HexField(AstralLowerings, 12, k, 2),
                      HexField(AstralLowerings, 12, k, 3)>> :
                        k \in 1..(Len(AstralLowerings) \div 12)}
    IN  [p \in {<<e[1], e[2]>> : e \in entries} |->
            (CHOOSE e \in entries : e[1] = p[1] /\ e[2] = p[2])[3]]

\* toLowerCase of a one-unit string; the dotted capital I (U+0130) becomes two
\* code units and the Kelvin sign (U+212A) the ASCII letter k
LowerChar(c) ==
    IF \E i \in 1..Len(UpperCase) : UpperCase[i] = c
    THEN <<LowerCase[CHOOSE i \in 1..Len(UpperCase) : UpperCase[i] = c]>>
    ELSE IF c = "U+0130" THEN <<"i", "U+0307">>
    ELSE IF c = "U+212A" THEN <<"k">>
    ELSE IF c \in DOMAIN NonAsciiLowerOf THEN <<NonAsciiLowerOf[c]>>
    ELSE <<c>>

\* what position i of s becomes.  Final_Sigma: the nearest character before
\* position i that is not case-ignorable is cased, and the nearest one after
\* it is not (a letter outside the Basic Multilingual Plane occupies two
\* positions)
LowerAt(s, i) ==
    LET PosCased(k) ==
            \/ s[k] \in CasedUnits
            \/ k < Len(s) /\ <<s[k], s[k + 1]>> \in CasedPairs
            \/ k > 1 /\ <<s[k - 1], s[k]>> \in CasedPairs
        PosIgnorable(k) ==
            \/ s[k] \in IgnorableUnits
            \/ k < Len(s) /\ <<s[k], s[k + 1]>> \in IgnorablePairs
            \/ k > 1 /\ <<s[k - 1], s[k]>> \in IgnorablePairs
        FinalSigma ==
            /\ \E j \in 1..(i - 1) :
                  PosCased(j) /\ \A k \in (j + 1)..(i - 1) : PosIgnorable(k)
            /\ ~\E j \in (i + 1)..Len(s) :
                  PosCased(j) /\ \A k \in (i + 1)..(j - 1) : PosIgnorable(k)
    IN  IF s[i] = "U+03A3"
        THEN (IF FinalSigma THEN <<"U+03C2">> ELSE <<"U+03C3">>)
        ELSE IF i > 1 /\ <<s[i - 1], s[i]>> \in DOMAIN AstralLowerOf
             THEN <<AstralLowerOf[<<s[i - 1], s[i]>>]>>
             ELSE LowerChar(s[i])

\* String.prototype.toLowerCase; from[i] is the result from position i on
ToLowerCase(s) ==
    LET from[i \in 1..(Len(s) + 1)] ==
            IF i > Len(s) THEN <<>> ELSE LowerAt(s, i) \o from[i + 1]
    IN  from[1]

\* pat occurs in s at position i
OccursAt(s, pat, i) ==
    /\ i >= 1
    /\ i + Len(pat) - 1 <= Len(s)
    /\ SubSeq(s, i, i + Len(pat) - 1) = pat

\* String.prototype.indexOf, 1-based; 0 when pat does not occur
IndexOf(s, pat) ==
    IF \E i \in 1..Len(s) + 1 : OccursAt(s, pat, i)
    THEN CHOOSE i \in 1..Len(s) + 1 :
             /\ OccursAt(s, pat, i)
             /\ \A j \in 1..i - 1 : ~OccursAt(s, pat, j)
    ELSE 0

\* String.prototype.startsWith
StartsWith(s, pat) == OccursAt(s, pat, 1)

\* String.prototype.replace(pat, "") with a string pattern: the first
\* occurrence only
RemoveFirst(s, pat) ==
    LET i == IndexOf(s, pat)
    IN  IF i = 0 THEN s
        ELSE SubSeq(s, 1, i - 1) \o SubSeq(s, i + Len(pat), Len(s))

\* String.prototype.split(sep) for a one-character separator
RECURSIVE Split(_, _)
Split(s, sep) ==
    LET i == IndexOf(s, <<sep>>)
    IN  IF i = 0 THEN <<s>>
        ELSE <<SubSeq(s, 1, i - 1)>> \o Split(SubSeq(s, i + 1, Len(s)), sep)

\* WhiteSpace and LineTerminator of ECMAScript, which trim strips: tab, line
\* feed, vertical tab, form feed, carriage return, space, no-break space,
\* the Unicode space separators, the line and paragraph separators, and the
\* byte order mark
WhiteSpaceChars ==
    { "\t", "\n", "U+000B", "\f", "\r", " ", "U+00A0", "U+1680",
      "U+2000", "U+2001", "U+2002", "U+2003", "U+2004", "U+2005", "U+2006",
      "U+2007", "U+2008", "U+2009", "U+200A", "U+2028", "U+2029", "U+202F",
      "U+205F", "U+3000", "U+FEFF" }

IsSpace(c) == c \in WhiteSpaceChars

\* String.prototype.trim
RECURSIVE Trim(_)
Trim(s) ==
    IF s = <<>> THEN s
    ELSE IF IsSpace(s[1]) THEN Trim(Tail(s))
    ELSE IF IsSpace(s[Len(s)]) THEN Trim(SubSeq(s, 1, Len(s) - 1))
    ELSE s

(***************************************************************************)
(* Literals of the source                                                  *)
(***************************************************************************)
\* the alternatives of /create|event|ticket|nft|deploy|contract/
IntentKeywords ==
    { <<"c","r","e","a","t","e">>, <<"e","v","e","n","t">>,
      <<"t","i","c","k","e","t">>, <<"n","f","t">>,
      <<"d","e","p","l","o","y">>, <<"c","o","n","t","r","a","c","t">> }

CompletionMarker ==
    <<"E","X","T","R","A","C","T","I","O","N","_",
      "C","O","M","P","L","E","T","E",":">>

ObjOpen == <<"[","O","B","J","]">>
ObjClose == <<"[","/","O","B","J","]">>

ApologyText ==
    <<"I apologize, but I encountered an error processing your request. Please try again.">>
DefaultErrorText == <<"An error occurred on the server.">>
LoadingText == <<"Processing your request...">>
WagerCreatedText == <<"Wager created successfully!">>
WagerParseErrorText == <<"Error creating wager object">>

(***************************************************************************)
(* Inputs the model draws from                                             *)
(***************************************************************************)
InputHi == <<"h","i">>
InputMyEvent == <<"M","y"," ","E","v","e","n","t">>
\* "TICKET" written with the Kelvin sign in place of the K
InputKelvinTicket == <<"T","I","C","U+212A","E","T">>

\* req.query.input: missing, empty, repeated (an array), or a string
QueryInputs ==
    { Null, Str(<<>>), Arr(<<Str(InputHi), Str(InputHi)>>),
      Str(InputHi), Str(InputMyEvent), Str(InputKelvinTicket) }

RawNotJson == <<"n","o","t"," ","j","s","o","n">>
RawObject == <<"{","}">>
RawNumberElement == <<"[","1","]">>
RawEmptyArray == <<"[","]">>
\* an element that is a string: a character outside the Basic Multilingual
\* Plane (U+1F600) and the letter b
RawStringElement == <<"[","\"","U+D83D","U+DE00","b","\"","]">>
RawPairs == <<"[","[","\"","H","u","m","a","n","\"",",","\"","a","\"","]",",","[","\"","A","I","\"",",","\"","b","\"","]","]">>

\* req.query.chat_history: missing, or a string
QueryHistories ==
    { Null, Str(RawNotJson), Str(RawObject), Str(RawNumberElement),
      Str(RawEmptyArray), Str(RawStringElement), Str(RawPairs) }

Queries == [input : QueryInputs, chat_history : QueryHistories]

\* the requests two concurrent clients draw from: one rejected, one whose
\* history makes the preparation of the run throw, one per branch of the
\* introduce stage
PairQueries ==
    { [input |-> Null, chat_history |-> Null],
      [input |-> Str(InputHi), chat_history |-> Str(RawNumberElement)],
      [input |-> Str(InputHi), chat_history |-> Null],
      [input |-> Str(InputMyEvent), chat_history |-> Str(RawPairs)] }

ReplyPlain == <<"O","k","?">>
ReplyComplete == <<"E","X","T","R","A","C","T","I","O","N","_","C","O","M","P","L","E","T","E",":"," ","G"," ","|"," ","1","/","2">>
ReplyNoSeparator == <<"E","X","T","R","A","C","T","I","O","N","_","C","O","M","P","L","E","T","E",":"," ","G">>
ReplyTwoSeparators == ReplyComplete \o <<" ","|"," ","x">>
ReplyObj == <<"[","O","B","J","]","{","}","[","/","O","B","J","]">>

\* what the language model may answer
Replies ==
    { ReplyPlain, ReplyComplete, ReplyNoSeparator, ReplyTwoSeparators, ReplyObj }

\* Error objects a model call may reject with (error.message)
ModelErrors == { [message |-> <<"rate limit">>], [message |-> <<>>] }

(***************************************************************************)
(* JSON.parse (server file, line 89): the JSON grammar of ECMA-404         *)
(***************************************************************************)
ParseFail == [ok |-> FALSE]

\* the first position from i on that holds no JSON whitespace
SkipWs(s, i) ==
    LET JsonWhitespace == { " ", "\t", "\n", "\r" }
    IN  CHOOSE j \in i..(Len(s) + 1) :
            /\ \A k \in i..(j - 1) : s[k] \in JsonWhitespace
            /\ j > Len(s) \/ s[j] \notin JsonWhitespace

HexUpper == <<"0","1","2","3","4","5","6","7","8","9","A","B","C","D","E","F">>

\* the value of a hexadecimal digit, -1 for any other character
HexValue(c) ==
    LET HexLower ==
            <<"0","1","2","3","4","5","6","7","8","9","a","b","c","d","e","f">>
    IN  IF \E k \in 1..Len(HexUpper) : HexUpper[k] = c \/ HexLower[k] = c
        THEN (CHOOSE k \in 1..Len(HexUpper) :
                  HexUpper[k] = c \/ HexLower[k] = c) - 1
        ELSE -1

\* the code unit a \uXXXX escape denotes; AsciiPrintable is the printable
\* ASCII characters, from the space (code 32) to the tilde
UnitOfHex(h1, h2, h3, h4) ==
    LET AsciiPrintable ==
            <<" ","!","\"","#","$","%","&","'","(",")","*","+",",","-",".","/",
              "0","1","2","3","4","5","6","7","8","9",":",";","<","=",">","?",
              "@","A","B","C","D","E","F","G","H","I","J","K","L","M","N","O",
              "P","Q","R","S","T","U","V","W","X","Y","Z","[","\\","]","^","_",
              "U+0060","a","b","c","d","e","f","g","h","i","j","k","l","m","n",
              "o","p","q","r","s","t","u","v","w","x","y","z","{","|","}","~">>
        code == 4096 * HexValue(h1) + 256 * HexValue(h2)
                + 16 * HexValue(h3) + HexValue(h4)
    IN  IF code >= 32 /\ code <= 126 THEN AsciiPrintable[code - 31]
        ELSE CASE code = 9 -> "\t"
               [] code = 10 -> "\n"
               [] code = 12 -> "\f"
               [] code = 13 -> "\r"
               [] OTHER -> "U+" \o HexUpper[HexValue(h1) + 1]
                                \o HexUpper[HexValue(h2) + 1]
                                \o HexUpper[HexValue(h3) + 1]
                                \o HexUpper[HexValue(h4) + 1]

\* put units in front of the text of a parsed rest
Prepend(units, rest) ==
    IF rest.ok THEN [rest EXCEPT !.val = units \o @] ELSE rest

\* a string literal whose opening quote is at position i: its code units and
\* the position after its closing quote.  ControlUnits are the control
\* characters, which a JSON string may not contain unescaped
JsonString(s, i) ==
    LET ControlUnits ==
            { "U+0000", "U+0001", "U+0002", "U+0003", "U+0004", "U+0005",
              "U+0006", "U+0007", "U+0008", "\t", "\n", "U+000B", "\f", "\r",
              "U+000E", "U+000F", "U+0010", "U+0011", "U+0012", "U+0013",
              "U+0014", "U+0015", "U+0016", "U+0017", "U+0018", "U+0019",
              "U+001A", "U+001B", "U+001C", "U+001D", "U+001E", "U+001F" }
        SimpleEscapes == { "\"", "\\", "/", "b", "f", "n", "r", "t" }
        SimpleEscape(c) ==
            CASE c = "b" -> "U+0008"
              [] c = "f" -> "\f"
              [] c = "n" -> "\n"
              [] c = "r" -> "\r"
              [] c = "t" -> "\t"
              [] OTHER -> c
        from[j \in (i + 1)..(Len(s) + 1)] ==
            IF j > Len(s) THEN ParseFail
            ELSE IF s[j] = "\"" THEN [ok |-> TRUE, val |-> <<>>, next |-> j + 1]
            ELSE IF s[j] \in ControlUnits THEN ParseFail
            ELSE IF s[j] # "\\" THEN Prepend(<<s[j]>>, from[j + 1])
            ELSE IF j + 1 > Len(s) THEN ParseFail
            ELSE IF s[j + 1] \in SimpleEscapes
                 THEN Prepend(<<SimpleEscape(s[j + 1])>>, from[j + 2])
            ELSE IF /\ s[j + 1] = "u"
                    /\ j + 5 <= Len(s)
                    /\ \A k \in (j + 2)..(j + 5) : HexValue(s[k]) >= 0
                 THEN Prepend(<<UnitOfHex(s[j + 2], s[j + 3], s[j + 4], s[j + 5])>>,
                              from[j + 6])
            ELSE ParseFail
    IN  from[i + 1]

\* a number at position i:  -? (0 | [1-9][0-9]*) (.[0-9]+)? ([eE][+-]?[0-9]+)?
\* An integer literal is its value; any other number is kept as its text.
JsonNumber(s, i) ==
    LET IsDigit(c) == \E k \in 1..Len(Digits) : Digits[k] = c
        \* the length of the longest run of digits at position p
        DigitRun(p) ==
            CHOOSE n \in 0..(Len(s) - p + 1) :
                /\ \A k \in p..(p + n - 1) : IsDigit(s[k])
                /\ p + n > Len(s) \/ ~IsDigit(s[p + n])
        \* the value of a run of decimal digits
        DecimalValue(digits) ==
            LET upto[k \in 0..Len(digits)] ==
                    IF k = 0 THEN 0
                    ELSE 10 * upto[k - 1]
                         + (CHOOSE d \in 1..Len(Digits) : Digits[d] = digits[k]) - 1
            IN  upto[Len(digits)]
        a == IF s[i] = "-" THEN i + 1 ELSE i
        intEnd == IF s[a] = "0" THEN a + 1 ELSE a + DigitRun(a)
        hasFrac == intEnd <= Len(s) /\ s[intEnd] = "."
        fracEnd == IF hasFrac THEN intEnd + 1 + DigitRun(intEnd + 1)
                   ELSE intEnd
        hasExp == fracEnd <= Len(s) /\ s[fracEnd] \in {"e", "E"}
        b == IF fracEnd + 1 <= Len(s) /\ s[fracEnd + 1] \in {"+", "-"}
             THEN fracEnd + 2 ELSE fracEnd + 1
        end == IF hasExp THEN b + DigitRun(b) ELSE fracEnd
    IN  IF a > Len(s) \/ ~IsDigit(s[a]) THEN ParseFail
        ELSE IF hasFrac /\ fracEnd = intEnd + 1 THEN ParseFail
        ELSE IF hasExp /\ end = b THEN ParseFail
        ELSE [ok |-> TRUE,
              val |-> IF hasFrac \/ hasExp
                      THEN [t |-> "num", text |-> SubSeq(s, i, end - 1)]
                      ELSE Num((IF s[i] = "-" THEN -1 ELSE 1)
                               * DecimalValue(SubSeq(s, a, intEnd - 1))),
              next |-> end]

\* a parsed text or list of items r as a value of type t
Tagged(t, r) ==
    IF r.ok THEN [r EXCEPT !.val = [t |-> t, v |-> @]] ELSE ParseFail

\* the items of a list from the item whose value v has been parsed: the
\* elements of an array, or the members of an object as <<key, value>> pairs
\* in the order written (name is the key of this member).  After the item
\* comes the end of the list, or a comma and the rest, which parse delivers
Items(text, parse, what, name, v) ==
    LET j == SkipWs(text, v.next)
        item == IF what = "members" THEN <<name, v.val>> ELSE v.val
        close == IF what = "members" THEN "}" ELSE "]"
    IN  IF ~v.ok THEN ParseFail
        ELSE IF j > Len(text) THEN ParseFail
        ELSE IF text[j] = close
             THEN [ok |-> TRUE, val |-> <<item>>, next |-> j + 1]
        ELSE IF text[j] = ","
             THEN Prepend(<<item>>, parse[what, SkipWs(text, j + 1)])
        ELSE ParseFail

\* the members of an object from the member whose key has been parsed: a
\* colon follows the key, and the value the colon
MembersFrom(text, parse, key) ==
    LET c == SkipWs(text, key.next)
    IN  IF ~key.ok THEN ParseFail
        ELSE IF c > Len(text) \/ text[c] # ":" THEN ParseFail
        ELSE Items(text, parse, "members", key.val,
                   parse["value", SkipWs(text, c + 1)])

\* the outcome of JSON.parse when r was parsed at the start of text: only
\* whitespace may follow the value
Outcome(text, r) ==
    IF r.ok /\ SkipWs(text, r.next) > Len(text)
    THEN [ok |-> TRUE, val |-> r.val]
    ELSE [ok |-> FALSE, message |-> <<"Unexpected token in JSON">>]

\* JSON.parse(text): the value, or a SyntaxError.  parse[what, i] is what
\* stands at position i of text:
\*   "value"     a value;
\*   "elements"  the elements of an array from position i, the start of an
\*               element, up to the closing bracket;
\*   "members"   the members of an object from position i, the start of a
\*               key, up to the closing brace
JSONParse(text) ==
    LET parse[what \in {"value", "elements", "members"},
              i \in 1..(Len(text) + 1)] ==
            CASE what = "value" ->
                    IF i > Len(text) THEN ParseFail
                    ELSE IF OccursAt(text, <<"n","u","l","l">>, i)
                         THEN [ok |-> TRUE, val |-> Null, next |-> i + 4]
                    ELSE IF OccursAt(text, <<"t","r","u","e">>, i)
                         THEN [ok |-> TRUE, val |-> [t |-> "bool", v |-> TRUE],
                               next |-> i + 4]
                    ELSE IF OccursAt(text, <<"f","a","l","s","e">>, i)
                         THEN [ok |-> TRUE, val |-> [t |-> "bool", v |-> FALSE],
                               next |-> i + 5]
                    ELSE IF text[i] = "\""
                         THEN Tagged("str", JsonString(text, i))
                    ELSE IF text[i] = "["
                         THEN IF OccursAt(text, <<"]">>, SkipWs(text, i + 1))
                              THEN [ok |-> TRUE, val |-> Arr(<<>>),
                                    next |-> SkipWs(text, i + 1) + 1]
                              ELSE Tagged("arr",
                                          parse["elements", SkipWs(text, i + 1)])
                    ELSE IF text[i] = "{"
                         THEN IF OccursAt(text, <<"}">>, SkipWs(text, i + 1))
                              THEN [ok |-> TRUE, val |-> Obj(<<>>),
                                    next |-> SkipWs(text, i + 1) + 1]
                              ELSE Tagged("obj",
                                          parse["members", SkipWs(text, i + 1)])
                    ELSE JsonNumber(text, i)
              [] what = "elements" ->
                    Items(text, parse, "elements", <<>>, parse["value", i])
              [] what = "members" ->
                    IF i > Len(text) \/ text[i] # "\"" THEN ParseFail
                    ELSE MembersFrom(text, parse, JsonString(text, i))
    IN  Outcome(text, parse["value", SkipWs(text, 1)])

(***************************************************************************)
(* Request validation (server file, lines 80-97)                           *)
(***************************************************************************)
\* typeof input !== 'string' || !input   is false
InputAccepted(q) == q.input.t = "str" /\ q.input.v # <<>>

\* typeof chatHistoryString === 'string' && chatHistoryString
HistoryGiven(q) == q.chat_history.t = "str" /\ q.chat_history.v # <<>>

\* the try block of lines 88-96: JSON.parse, then Array.isArray
ParseChatHistory(q) ==
    IF ~HistoryGiven(q) THEN [ok |-> TRUE, val |-> <<>>]
    ELSE LET p == JSONParse(q.chat_history.v)
         IN  IF ~p.ok THEN p
             ELSE IF p.val.t # "arr"
                  THEN [ok |-> FALSE,
                        message |-> <<"Chat history must be an array.">>]
                  ELSE [ok |-> TRUE, val |-> p.val.v]

\* the request is answered 400 before the stream is opened
Rejected(q) == ~InputAccepted(q) \/ ~ParseChatHistory(q).ok

(***************************************************************************)
(* convertChatHistoryToMessages (server file, lines 36-51)                 *)
(***************************************************************************)
\* String.prototype[Symbol.iterator]: the code points of s, each the one or
\* two code units that write it (a high surrogate, U+D800 to U+DBFF, and the
\* low surrogate, U+DC00 to U+DFFF, that follows it make one code point)
CodePoints(s) ==
    LET Surrogate(c, third) ==
            /\ Len(c) = 6
            /\ SubSeq(c, 1, 3) = "U+D"
            /\ SubSeq(c, 4, 4) \in third
        Paired(i) ==
            /\ i < Len(s)
            /\ Surrogate(s[i], {"8", "9", "A", "B"})
            /\ Surrogate(s[i + 1], {"C", "D", "E", "F"})
        from[i \in 1..(Len(s) + 1)] ==
            IF i > Len(s) THEN <<>>
            ELSE IF Paired(i) THEN << <<s[i], s[i + 1]>> >> \o from[i + 2]
            ELSE << <<s[i]>> >> \o from[i + 1]
    IN  from[1]

\* the i-th value the destructuring pattern [role, content] binds from e;
\* arrays and strings are iterable (a string by code point), a missing
\* position binds undefined
Destructured(e, i) ==
    IF e.t = "arr" THEN (IF i <= Len(e.v) THEN e.v[i] ELSE Null)
    ELSE IF i <= Len(CodePoints(e.v)) THEN Str(CodePoints(e.v)[i]) ELSE Null

\* destructuring a non-iterable, or role.toLowerCase() on a non-string,
\* throws a TypeError
ElementThrows(e) ==
    \/ e.t \notin {"arr", "str"}
    \/ Destructured(e, 1).t # "str"

HumanMessage(content) == [role |-> "Human", content |-> content]
AIMessage(content) == [role |-> "Assistant", content |-> content]

\* a conversion that compares the role as written, without toLowerCase
ConvertElementCaseSensitive(e) ==
    LET role == Destructured(e, 1).v
        content == Destructured(e, 2)
    IN  CASE role = <<"a","s","s","i","s","t","a","n","t">> -> AIMessage(content)
          [] role = <<"a","i">> -> AIMessage(content)
          [] OTHER -> HumanMessage(content)

ConvertElement(e) ==
    LET role == ToLowerCase(Destructured(e, 1).v)
        content == Destructured(e, 2)
    IN  CASE role = <<"h","u","m","a","n">> -> HumanMessage(content)
          [] role = <<"a","s","s","i","s","t","a","n","t">> -> AIMessage(content)
          [] role = <<"a","i">> -> AIMessage(content)
          [] OTHER -> HumanMessage(content)

convertChatHistoryToMessages(chat_history) ==
    IF \E i \in 1..Len(chat_history) : ElementThrows(chat_history[i])
    THEN [ok |-> FALSE, error |-> [message |-> <<"TypeError">>]]
    ELSE [ok |-> TRUE,
          val |-> [i \in 1..Len(chat_history) |-> ConvertElement(chat_history[i])]]

(***************************************************************************)
(* Prompt templates (graph.ts, lines 55-81)                                *)
(***************************************************************************)
\* \w : a letter, a digit or the underscore
IsWordChar(c) ==
    \/ \E k \in 1..Len(LowerCase) : c = LowerCase[k] \/ c = UpperCase[k]
    \/ \E k \in 1..Len(Digits) : c = Digits[k]
    \/ c = "_"

\* \w+ at position i: the length of the longest run of word characters
WordRun(s, i) ==
    CHOOSE n \in 0..(Len(s) - i + 1) :
        /\ \A k \in i..(i + n - 1) : IsWordChar(s[k])
        /\ i + n > Len(s) \/ ~IsWordChar(s[i + n])

\* the properties every object literal inherits from Object.prototype and
\* that are functions
InheritedMethods ==
    { <<"c","o","n","s","t","r","u","c","t","o","r">>,
      <<"t","o","S","t","r","i","n","g">>,
      <<"t","o","L","o","c","a","l","e","S","t","r","i","n","g">>,
      <<"v","a","l","u","e","O","f">>,
      <<"h","a","s","O","w","n","P","r","o","p","e","r","t","y">>,
      <<"i","s","P","r","o","t","o","t","y","p","e","O","f">>,
      <<"p","r","o","p","e","r","t","y","I","s","E","n","u","m","e","r","a","b","l","e">>,
      <<"_","_","d","e","f","i","n","e","G","e","t","t","e","r","_","_">>,
      <<"_","_","d","e","f","i","n","e","S","e","t","t","e","r","_","_">>,
      <<"_","_","l","o","o","k","u","p","G","e","t","t","e","r","_","_">>,
      <<"_","_","l","o","o","k","u","p","S","e","t","t","e","r","_","_">> }

\* String(data[key]) for a key data does not own: what the prototype chain
\* delivers, as replace converts it to a string (a native function prints
\* its name, data.constructor is Object, data.__proto__ is Object.prototype)
InheritedText(key) ==
    IF key = <<"_","_","p","r","o","t","o","_","_">>
    THEN <<"[","o","b","j","e","c","t"," ","O","b","j","e","c","t","]">>
    ELSE <<"f","u","n","c","t","i","o","n"," ">>
         \o (IF key = <<"c","o","n","s","t","r","u","c","t","o","r">>
             THEN <<"O","b","j","e","c","t">> ELSE key)
         \o <<"(",")"," ","{"," ","[","n","a","t","i","v","e"," ","c","o","d","e","]"," ","}">>

\* (match, key) => data[key] || match : an own key first (the empty string is
\* falsy), then the prototype chain, else undefined
Replacement(data, key, match) ==
    IF key \in DOMAIN data
    THEN (IF data[key] # <<>> THEN data[key] ELSE match)
    ELSE IF key \in InheritedMethods \cup {<<"_","_","p","r","o","t","o","_","_">>}
         THEN InheritedText(key)
         ELSE match

\* template.replace(/\{(\w+)\}/g, ...): matches are found left to right and
\* do not overlap, replacements are not rescanned; from[i] is the result
\* from position i on
formatTemplate(template, data) ==
    LET from[i \in 1..(Len(template) + 1)] ==
            IF i > Len(template) THEN <<>>
            ELSE LET n == WordRun(template, i + 1)
                 IN  IF /\ template[i] = "{"
                        /\ n >= 1
                        /\ i + n + 1 <= Len(template)
                        /\ template[i + n + 1] = "}"
                     THEN Replacement(data, SubSeq(template, i + 1, i + n),
                                      SubSeq(template, i, i + n + 1))
                          \o from[i + n + 2]
                     ELSE <<template[i]>> \o from[i + 1]
    IN  from[1]

\* the placeholders of EVENT_EXTRACTION_TEMPLATE
KeyEventName == <<"e","v","e","n","t","_","n","a","m","e">>
KeyEventDate == <<"e","v","e","n","t","_","d","a","t","e">>
Placeholder(key) == <<"{">> \o key \o <<"}">>

\* the text of EVENT_EXTRACTION_TEMPLATE around its placeholders (lines 57-77)
TemplateTask ==
    <<"You are Adaptic AI, helping users create NFT ticketing contracts.\n\nYour task is to extract TWO pieces of information from the user's input:\n1. **Event Name** (string) - What is the event called?\n2. **Event Date** (date) - When is the event happening?\n\nCurrent status:\n- Event Name: ">>
TemplateStatusDate == <<"\n- Event Date: ">>
TemplateGuidelines ==
    <<"\n\nIMPORTANT GUIDELINES:\n- If the user mentions a date like \"25th of May\" or \"tomorrow\" or \"next Friday\", ask them to confirm the YEAR and provide the date in DD/MM/YYYY format\n- If they say \"May 25th\" ask \"Can you confirm the year? Please provide the date as DD/MM/YYYY\"\n- If they give a relative date like \"tomorrow\" or \"next week\", ask for the specific date in DD/MM/YYYY format\n- Be helpful and conversational, but always get the exact date format needed\n- Only ask for what's missing - don't repeat information you already have\n\nIf you have BOTH the event name (as a clear string) AND the event date (in DD/MM/YYYY format), respond with:\n\"EXTRACTION_COMPLETE: ">>
TemplateSeparator == <<" | ">>
TemplateClosing ==
    <<"\"\n\nOtherwise, ask for the missing information in a friendly way.">>

EVENT_EXTRACTION_TEMPLATE ==
    TemplateTask \o Placeholder(KeyEventName)
    \o TemplateStatusDate \o Placeholder(KeyEventDate)
    \o TemplateGuidelines \o Placeholder(KeyEventName)
    \o TemplateSeparator \o Placeholder(KeyEventDate)
    \o TemplateClosing

MissingText == <<"Missing">>

\* a template data that presents eventName and eventDate as found
templateDataFound(state) ==
    (KeyEventName :> <<"Found">>) @@ (KeyEventDate :> <<"Found">>)

\* templateData of event_extraction_node (lines 139-142)
templateData(state) ==
    (KeyEventName :> OrElse(state.eventName, Str(MissingText)).v)
    @@ (KeyEventDate :> OrElse(state.eventDate, Str(MissingText)).v)

(***************************************************************************)
(* The conversation graph (graph.ts)                                       *)
(***************************************************************************)
OpEventCreation == Str(<<"event_creation">>)
OpIntroduction == Str(<<"introduction">>)
StepInitial == Str(<<"initial">>)
StepEventExtraction == Str(<<"event_extraction">>)
StepIntroductionComplete == Str(<<"introduction_complete">>)
StepNftCreation == Str(<<"nft_creation">>)
StepCompleted == Str(<<"completed">>)

\* channel defaults (lines 88-95)
ChannelDefaults ==
    [ input |-> Null, chat_history |-> <<>>, messages |-> <<>>,
      operation |-> Null, currentStep |-> StepInitial,
      eventName |-> Null, eventDate |-> Null, nftTicketObject |-> Null ]

\* a node's return value; a key the node does not return is undefined
NoUpdate ==
    [ operation |-> Null, currentStep |-> Null, eventName |-> Null,
      eventDate |-> Null, nftTicketObject |-> Null, messages |-> <<>> ]

\* channel reducers (lines 88-95) applied to a node's return value
ApplyUpdate(state, upd) ==
    [ state EXCEPT
        !.messages = state.messages \o upd.messages,
        !.operation = Coalesce(upd.operation, state.operation),
        !.currentStep = Coalesce(upd.currentStep, state.currentStep),
        !.eventName = Coalesce(upd.eventName, state.eventName),
        !.eventDate = Coalesce(upd.eventDate, state.eventDate),
        !.nftTicketObject = Coalesce(upd.nftTicketObject, state.nftTicketObject) ]

\* the state graph.stream starts from: the handler's initialState written
\* through the reducers onto the defaults
InitialGraphState(input, history) ==
    [ ChannelDefaults EXCEPT
        !.input = Coalesce(Str(input), ChannelDefaults.input),
        !.chat_history = history ]

\* /create|event|ticket|nft|deploy|contract/.test(state.input.toLowerCase())
isEventCreation(input) ==
    \E kw \in IntentKeywords : IndexOf(ToLowerCase(input), kw) # 0

\* a keyword branch that speaks before handing over to the next stage
IntroductionSkipSpeaks ==
    [ operation |-> Str(<<"event_creation">>),
      currentStep |-> Str(<<"event_extraction">>),
      eventName |-> Null, eventDate |-> Null, nftTicketObject |-> Null,
      messages |-> << <<"Let's create your event!">> >> ]

\* introduction_node, keyword branch (lines 109-115)
IntroductionSkip ==
    [ NoUpdate EXCEPT !.operation = OpEventCreation,
                      !.currentStep = StepEventExtraction ]

\* an introduction result that marks the run completed
IntroductionResultCompleted(reply) ==
    [ NoUpdate EXCEPT !.operation = OpIntroduction,
                      !.messages = <<reply>>,
                      !.currentStep = StepCompleted ]

\* introduction_node, after the model replied (lines 129-133)
IntroductionResult(reply) ==
    [ NoUpdate EXCEPT !.operation = OpIntroduction,
                      !.messages = <<reply>>,
                      !.currentStep = StepIntroductionComplete ]

\* responseText.replace(marker, "").split("|").map(p => p.trim())
ExtractionParts(responseText) ==
    LET raw == Split(RemoveFirst(responseText, CompletionMarker), "|")
    IN  [i \in 1..Len(raw) |-> Trim(raw[i])]

\* parts[i] of a JavaScript array, 0-based; undefined past the end
PartAt(parts, i) == IF i + 1 <= Len(parts) THEN Str(parts[i + 1]) ELSE Null

\* event_extraction_node, after the model replied (lines 157-179)
ExtractionResult(responseText) ==
    IF StartsWith(responseText, CompletionMarker)
    THEN LET parts == ExtractionParts(responseText)
         IN  [ NoUpdate EXCEPT !.operation = OpEventCreation,
                               !.currentStep = StepNftCreation,
                               !.eventName = PartAt(parts, 0),
                               !.eventDate = PartAt(parts, 1) ]
    ELSE [ NoUpdate EXCEPT !.operation = OpEventCreation,
                           !.currentStep = StepEventExtraction,
                           !.messages = <<responseText>> ]

\* the object built at lines 185-207
NftTicketObject(state, now) ==
    Obj([ type |-> "nft_ticket",
          eventDetails |->
            [ name |-> OrElse(state.eventName, Str(<<"Unknown Event">>)).v,
              date |-> OrElse(state.eventDate, Str(<<"Unknown Date">>)).v ],
          contractDetails |->
            [ ticketPrice |-> <<"0.1">>, maxSupply |-> <<"100">>,
              transferable |-> TRUE, refundable |-> FALSE ],
          metadata |->
            [ description |->
                <<"NFT Ticket for ">> \o OrElse(state.eventName, Str(<<"Event">>)).v,
              image |-> <<>>,
              attributes |->
                << [trait_type |-> "Event Type", value |-> <<"General Admission">>],
                   [trait_type |-> "Date",
                    value |-> OrElse(state.eventDate, Str(<<"TBD">>)).v] >> ],
          status |-> "ready_to_deploy",
          createdAt |-> now ])

\* the summary of line 213; the source file holds its leading ticket emoji
\* as the four characters U+00F0 U+0178 U+017D U+00AB
SummaryMessage(ticket) ==
    <<"U+00F0", "U+0178", "U+017D", "U+00AB",
      " Perfect! I've prepared your NFT ticketing contract. Here are the details:",
      "\n", "\n", "**Event:** ">> \o ticket.v.eventDetails.name
    \o <<"\n", "**Date:** ">> \o ticket.v.eventDetails.date
    \o <<"\n", "**Ticket Price:** ">> \o ticket.v.contractDetails.ticketPrice
    \o <<" MASSA", "\n", "**Max Supply:** ">> \o ticket.v.contractDetails.maxSupply
    \o <<" tickets", "\n", "\n",
         "You can now deploy this NFT ticketing contract to the Massa blockchain! The contract will allow users to mint tickets as NFTs for your event.">>

\* nft_creation_node (lines 183-215)
NftCreationResult(state, now) ==
    LET ticket == NftTicketObject(state, now)
    IN  [ NoUpdate EXCEPT !.operation = OpEventCreation,
                          !.currentStep = StepCompleted,
                          !.nftTicketObject = ticket,
                          !.messages = <<SummaryMessage(ticket)>> ]

\* conditional edge out of introduction_node (lines 221-231)
AfterIntroduction(state) ==
    IF state.operation = OpEventCreation
    THEN "event_extraction_node" ELSE "END"

\* an edge out of event_extraction_node that re-enters the node
AfterExtractionLoops(state) ==
    IF state.currentStep = StepNftCreation
    THEN "nft_creation_node" ELSE "event_extraction_node"

\* conditional edge out of event_extraction_node (lines 233-243)
AfterExtraction(state) ==
    IF state.currentStep = StepNftCreation
    THEN "nft_creation_node" ELSE "END"

(***************************************************************************)
(* Wire events (server file, lines 103-105, 134-198)                       *)
(***************************************************************************)
LoadingEvent == [type |-> "loading", content |-> LoadingText, wager |-> Null]
MessageEvent(text) == [type |-> "message", content |-> text, wager |-> Null]
WagerEvent(obj) == [type |-> "wager", content |-> WagerCreatedText, wager |-> obj]
ErrorEvent(text) == [type |-> "error", payload |-> [message |-> text]]
EndEvent == [type |-> "end"]

\* the line terminators, which `.` does not match without the s flag
LineTerminators == { "\n", "\r", "U+2028", "U+2029" }

\* /\[OBJ\](.*?)\[\/OBJ\]/ matches s with "[OBJ]" at i and "[/OBJ]" at j
ObjMatchAt(s, i, j) ==
    /\ OccursAt(s, ObjOpen, i)
    /\ j >= i + Len(ObjOpen)
    /\ OccursAt(s, ObjClose, j)
    /\ \A k \in (i + Len(ObjOpen))..(j - 1) : s[k] \notin LineTerminators

\* message.match(...): leftmost match, lazy capture group 1
WagerObjectMatch(s) ==
    LET P == 1..Len(s)
        starts == {i \in P : \E j \in P : ObjMatchAt(s, i, j)}
    IN  IF starts = {} THEN [found |-> FALSE, capture |-> <<>>]
        ELSE LET i == CHOOSE x \in starts : \A y \in starts : x <= y
                 ends == {j \in P : ObjMatchAt(s, i, j)}
                 j == CHOOSE x \in ends : \A y \in ends : x <= y
             IN  [found |-> TRUE,
                  capture |-> SubSeq(s, i + Len(ObjOpen), j - 1)]

\* output?.messages?.[0]  is truthy
HasFirstMessage(output) ==
    Len(output.messages) >= 1 /\ output.messages[1] # <<>>

\* lines 134-141
LoadingEvents(nodeName, hasSentLoadingIndicator) ==
    IF nodeName = "initial_node" /\ ~hasSentLoadingIndicator
    THEN <<LoadingEvent>> ELSE <<>>

\* lines 143-181
MessageEvents(nodeName, output) ==
    IF ~HasFirstMessage(output) THEN <<>>
    ELSE LET message == output.messages[1]
             wagerObjectMatch == WagerObjectMatch(message)
         IN  IF wagerObjectMatch.found /\ nodeName = "wager_validation_node"
             THEN LET parsed == JSONParse(wagerObjectMatch.capture)
                  IN  IF parsed.ok THEN <<WagerEvent(parsed.val)>>
                      ELSE <<MessageEvent(WagerParseErrorText)>>
             ELSE IF nodeName = "initial_node"
             THEN <<MessageEvent(message)>>
             ELSE IF nodeName \in {"wager_info_extraction_node",
                                   "event_details_extraction_node"}
             THEN <<MessageEvent(message)>>
             ELSE <<>>

\* the update reaches line 172 (initialNodeComplete = true)
CompletesInitialNode(nodeName, output) ==
    /\ HasFirstMessage(output)
    /\ ~(WagerObjectMatch(output.messages[1]).found
         /\ nodeName = "wager_validation_node")
    /\ nodeName = "initial_node"

\* error.message || "An error occurred on the server."
ErrorDescription(error) ==
    IF error.message = <<>> THEN DefaultErrorText ELSE error.message

\* a catch block that forgets the closing `end` event
CatchEventsNoEnd(initialNodeComplete, error) ==
    (IF ~initialNodeComplete THEN <<MessageEvent(ApologyText)>> ELSE <<>>)
    \o <<ErrorEvent(ErrorDescription(error))>>

\* a catch block that never sends the apologetic fallback
CatchEventsNoFallback(initialNodeComplete, error) ==
    <<ErrorEvent(ErrorDescription(error)), EndEvent>>

\* the catch block, lines 185-198
CatchEvents(initialNodeComplete, error) ==
    (IF ~initialNodeComplete THEN <<MessageEvent(ApologyText)>> ELSE <<>>)
    \o <<ErrorEvent(ErrorDescription(error)), EndEvent>>

\* line 184
CompletionEvents == <<EndEvent>>

\* the names under which the graph registers its nodes (lines 103, 138, 183)
IntroductionNodeName == "introduction_node"
ExtractionNodeName == "event_extraction_node"
NftCreationNodeName == "nft_creation_node"

(***************************************************************************)
(* State                                                                   *)
(***************************************************************************)
VARIABLES
    hpc,        \* handler position: absent, idle, rejected, streaming, closed
    query,      \* req.query of the request the client sends
    status,     \* HTTP status sent (0: none yet)
    wire,       \* the events written with res.write, in order
    source,     \* for each event of wire, who produced it: the node whose
                \* update was being relayed, or "handler"
    initialNodeComplete,
    hasSentLoadingIndicator,
    aborted,    \* requestSignal.aborted
    timer,      \* timeoutId: none, armed, fired, cleared
    clientGone, \* req emitted 'close'
    gpc,        \* graph position: none, a node name, intro_call,
                \* extract_call, END, failed
    gstate,     \* the graph's channels
    queue,      \* updates streamed by the graph, not yet read by the handler
    gerr,       \* the error the graph's stream rejects with
    steps,      \* supersteps the graph has run
    modelCalls, \* invocations of the language model by this run
    executed,   \* the nodes this run has started, in order
    spoke,      \* the nodes that returned a non-empty messages list, in order
    outcomes,   \* what this run's environment delivered: replies, errors, clock
    prompt,     \* the system prompt event_extraction_node rendered
    call,       \* a helper function applied on its own: its name and arguments
    result      \* what that application returned

vars == << hpc, query, status, wire, source, initialNodeComplete,
           hasSentLoadingIndicator, aborted, timer, clientGone, gpc, gstate,
           queue, gerr, steps, modelCalls, executed, spoke, outcomes,
           prompt, call, result >>

handlerVars == << hpc, query, status, wire, source, initialNodeComplete,
                  hasSentLoadingIndicator >>
signalVars == << aborted, timer, clientGone >>
graphVars == << gpc, gstate, queue, gerr, steps, modelCalls, executed,
                spoke, outcomes, prompt >>
callVars == << call, result >>

NoQuery == [input |-> Null, chat_history |-> Null]
NoError == [message |-> <<>>]
NoCall == [fn |-> "none"]
NoResult == [done |-> FALSE]

InitRequests(active, queries) ==
    /\ hpc = [r \in Requests |-> IF r \in active THEN "idle" ELSE "absent"]
    /\ query \in [Requests -> queries \cup {NoQuery}]
    /\ \A r \in Requests : r \notin active => query[r] = NoQuery
    /\ status = [r \in Requests |-> 0]
    /\ wire = [r \in Requests |-> <<>>]
    /\ source = [r \in Requests |-> <<>>]
    /\ initialNodeComplete = [r \in Requests |-> FALSE]
    /\ hasSentLoadingIndicator = [r \in Requests |-> FALSE]
    /\ aborted = [r \in Requests |-> FALSE]
    /\ timer = [r \in Requests |-> "none"]
    /\ clientGone = [r \in Requests |-> FALSE]
    /\ gpc = [r \in Requests |-> "none"]
    /\ gstate = [r \in Requests |-> ChannelDefaults]
    /\ queue = [r \in Requests |-> <<>>]
    /\ gerr = [r \in Requests |-> NoError]
    /\ steps = [r \in Requests |-> 0]
    /\ modelCalls = [r \in Requests |-> 0]
    /\ executed = [r \in Requests |-> <<>>]
    /\ spoke = [r \in Requests |-> <<>>]
    /\ outcomes = [r \in Requests |-> <<>>]
    /\ prompt = [r \in Requests |-> <<>>]

\* two clients
Init ==
    /\ InitRequests(Requests, PairQueries)
    /\ call = NoCall
    /\ result = NoResult

\* one client
InitSolo ==
    /\ InitRequests({1}, Queries)
    /\ call = NoCall
    /\ result = NoResult

(***************************************************************************)
(* The request handler (server file, lines 65-207)                         *)
(***************************************************************************)
\* a sendEvent that writes to one response shared by all requests
sendEventsShared(w, r, events) == [w EXCEPT ![1] = w[1] \o events]

\* sendEvent: res.write on the request's own response
sendEvents(w, r, events) == [w EXCEPT ![r] = w[r] \o events]

\* the handler writes `events` while relaying `origin`
Writes(r, events, origin) ==
    /\ wire' = sendEvents(wire, r, events)
    /\ source' = [source EXCEPT ![r] = @ \o [i \in 1..Len(events) |-> origin]]

\* lines 65-124, up to the first await: arm the signal and the timer,
\* validate, open the stream, build the initial state, start the graph
Request(r) ==
    /\ hpc[r] = "idle"
    /\ LET q == query[r] IN
         /\ IF Rejected(q)
            THEN /\ status' = [status EXCEPT ![r] = HttpBadRequest]
                 /\ hpc' = [hpc EXCEPT ![r] = "rejected"]
                 /\ timer' = [timer EXCEPT ![r] = "armed"]
                 /\ UNCHANGED << wire, source, aborted, gpc, gstate >>
            ELSE LET history == convertChatHistoryToMessages(ParseChatHistory(q).val)
                 IN  /\ status' = [status EXCEPT ![r] = 200]
                     /\ IF history.ok
                        THEN /\ hpc' = [hpc EXCEPT ![r] = "streaming"]
                             /\ gstate' = [gstate EXCEPT ![r] =
                                             InitialGraphState(q.input.v, history.val)]
                             /\ gpc' = [gpc EXCEPT ![r] = IntroductionNodeName]
                             /\ timer' = [timer EXCEPT ![r] = "armed"]
                             /\ UNCHANGED << wire, source, aborted >>
                        ELSE \* line 114 throws: catch, then finally
                             /\ Writes(r, CatchEvents(initialNodeComplete[r],
                                                      history.error), "handler")
                             /\ timer' = [timer EXCEPT ![r] = "cleared"]
                             /\ aborted' = [aborted EXCEPT ![r] = TRUE]
                             /\ hpc' = [hpc EXCEPT ![r] = "closed"]
                             /\ UNCHANGED << gpc, gstate >>
    /\ UNCHANGED << query, initialNodeComplete, hasSentLoadingIndicator,
                    clientGone, queue, gerr, steps, modelCalls, executed, spoke,
                    outcomes, callVars, prompt >>

\* one iteration of the for-await loop (lines 126-182)
ConsumeUpdate(r) ==
    /\ hpc[r] = "streaming"
    /\ queue[r] # <<>>
    /\ LET chunk == Head(queue[r])
       IN  /\ Writes(r, LoadingEvents(chunk.node, hasSentLoadingIndicator[r])
                        \o MessageEvents(chunk.node, chunk.output), chunk.node)
           /\ hasSentLoadingIndicator' =
                [hasSentLoadingIndicator EXCEPT ![r] =
                    @ \/ LoadingEvents(chunk.node, @) # <<>>]
           /\ initialNodeComplete' =
                [initialNodeComplete EXCEPT ![r] =
                    @ \/ CompletesInitialNode(chunk.node, chunk.output)]
    /\ queue' = [queue EXCEPT ![r] = Tail(@)]
    /\ UNCHANGED << hpc, query, status, signalVars, gpc, gstate, gerr, steps,
                    modelCalls, executed, spoke, outcomes, callVars, prompt >>

\* the finally block (lines 199-206)
Finally(r) ==
    /\ timer' = [timer EXCEPT ![r] = IF @ = "armed" THEN "cleared" ELSE @]
    /\ aborted' = [aborted EXCEPT ![r] = TRUE]
    /\ hpc' = [hpc EXCEPT ![r] = "closed"]

\* the stream is exhausted: line 184, then finally
StreamEnd(r) ==
    /\ hpc[r] = "streaming"
    /\ queue[r] = <<>>
    /\ gpc[r] = "END"
    /\ Writes(r, CompletionEvents, "handler")
    /\ Finally(r)
    /\ UNCHANGED << query, status, initialNodeComplete, hasSentLoadingIndicator,
                    clientGone, graphVars, callVars >>

\* the stream rejects: catch (lines 185-198), then finally
StreamError(r) ==
    /\ hpc[r] = "streaming"
    /\ queue[r] = <<>>
    /\ gpc[r] = "failed"
    /\ Writes(r, CatchEvents(initialNodeComplete[r], gerr[r]), "handler")
    /\ Finally(r)
    /\ UNCHANGED << query, status, initialNodeComplete, hasSentLoadingIndicator,
                    clientGone, graphVars, callVars >>

\* req.on('close') (lines 71-73)
ClientClose(r) ==
    /\ hpc[r] \notin {"absent", "idle"}
    /\ ~clientGone[r]
    /\ clientGone' = [clientGone EXCEPT ![r] = TRUE]
    /\ aborted' = [aborted EXCEPT ![r] = TRUE]
    /\ UNCHANGED << handlerVars, timer, graphVars, callVars >>

\* the setTimeout callback (lines 76-78)
Timeout(r) ==
    /\ timer[r] = "armed"
    /\ timer' = [timer EXCEPT ![r] = "fired"]
    /\ aborted' = [aborted EXCEPT ![r] = TRUE]
    /\ UNCHANGED << handlerVars, clientGone, graphVars, callVars >>

(***************************************************************************)
(* One run of the graph (graph.ts, lines 103-245), streamed in          *)
(* streamMode "updates": one {nodeName: update} chunk per node             *)
(***************************************************************************)
RecursionError == [message |-> <<"Recursion limit reached">>]

\* a node returned `update`: reduce it into the channels, stream the chunk,
\* follow the edge
NodeReturns(r, nodeName, update, next) ==
    /\ gstate' = [gstate EXCEPT ![r] = ApplyUpdate(@, update)]
    /\ queue' = [queue EXCEPT ![r] =
                   Append(@, [node |-> nodeName, output |-> update])]
    /\ spoke' = [spoke EXCEPT ![r] =
                   IF update.messages # <<>> THEN Append(@, nodeName) ELSE @]
    /\ gpc' = [gpc EXCEPT ![r] = next]

\* the run rejects with `error`
RunFails(r, error) ==
    /\ gpc' = [gpc EXCEPT ![r] = "failed"]
    /\ gerr' = [gerr EXCEPT ![r] = error]

\* a superstep runs `nodeName` (whose effect is Body), unless recursionLimit
\* supersteps have already run: then the run rejects (line 122)
Superstep(r, nodeName, Body) ==
    /\ gpc[r] = nodeName
    /\ IF steps[r] >= recursionLimit
       THEN /\ RunFails(r, RecursionError)
            /\ UNCHANGED << gstate, queue, spoke, steps, modelCalls,
                            executed, outcomes, prompt >>
       ELSE /\ steps' = [steps EXCEPT ![r] = @ + 1]
            /\ executed' = [executed EXCEPT ![r] = Append(@, nodeName)]
            /\ Body
    /\ UNCHANGED << handlerVars, signalVars, callVars >>

\* the node awaits llm.invoke (lines 124, 152)
CallsModel(r, awaiting) ==
    /\ gpc' = [gpc EXCEPT ![r] = awaiting]
    /\ modelCalls' = [modelCalls EXCEPT ![r] = @ + 1]
    /\ UNCHANGED << gstate, queue, spoke, gerr, outcomes >>

\* introduction_node up to its return or its model call (lines 103-127)
IntroductionNode(r) ==
    Superstep(r, IntroductionNodeName,
        IF isEventCreation(gstate[r].input.v)
        THEN /\ NodeReturns(r, IntroductionNodeName, IntroductionSkip,
                   AfterIntroduction(ApplyUpdate(gstate[r], IntroductionSkip)))
             /\ UNCHANGED << modelCalls, gerr, outcomes, prompt >>
        ELSE /\ CallsModel(r, "intro_call")
             /\ UNCHANGED prompt)

\* the introduction model call resolves (lines 124-133)
IntroductionReply(r) ==
    /\ gpc[r] = "intro_call"
    /\ \E reply \in Replies :
         /\ NodeReturns(r, IntroductionNodeName, IntroductionResult(reply),
                        AfterIntroduction(
                            ApplyUpdate(gstate[r], IntroductionResult(reply))))
         /\ outcomes' = [outcomes EXCEPT ![r] =
                           Append(@, [kind |-> "reply", text |-> reply])]
    /\ UNCHANGED << handlerVars, signalVars, gerr, steps, modelCalls, executed,
                    callVars, prompt >>

\* event_extraction_node up to its model call (lines 138-155): render the
\* system prompt, invoke the model
EventExtractionNode(r) ==
    Superstep(r, ExtractionNodeName,
        /\ prompt' = [prompt EXCEPT ![r] =
                        formatTemplate(EVENT_EXTRACTION_TEMPLATE,
                                       templateData(gstate[r]))]
        /\ CallsModel(r, "extract_call"))

\* the extraction model call resolves (lines 157-179)
ExtractionReply(r) ==
    /\ gpc[r] = "extract_call"
    /\ \E reply \in Replies :
         /\ NodeReturns(r, ExtractionNodeName, ExtractionResult(reply),
                        AfterExtraction(
                            ApplyUpdate(gstate[r], ExtractionResult(reply))))
         /\ outcomes' = [outcomes EXCEPT ![r] =
                           Append(@, [kind |-> "reply", text |-> reply])]
    /\ UNCHANGED << handlerVars, signalVars, gerr, steps, modelCalls, executed,
                    callVars, prompt >>

\* a model call rejects (lines 124, 152): the node throws, the run fails
ModelCallFails(r) ==
    /\ gpc[r] \in {"intro_call", "extract_call"}
    /\ \E error \in ModelErrors :
         /\ RunFails(r, error)
         /\ outcomes' = [outcomes EXCEPT ![r] =
                           Append(@, [kind |-> "error", error |-> error])]
    /\ UNCHANGED << handlerVars, signalVars, gstate, queue, spoke, steps,
                    modelCalls, executed, callVars, prompt >>

\* nft_creation_node (lines 183-215), then the edge to END (line 245)
NftCreationNode(r) ==
    Superstep(r, NftCreationNodeName,
        \E now \in 1..MaxClock :
            /\ NodeReturns(r, NftCreationNodeName,
                           NftCreationResult(gstate[r], now), "END")
            /\ outcomes' = [outcomes EXCEPT ![r] =
                              Append(@, [kind |-> "clock", now |-> now])]
            /\ UNCHANGED << modelCalls, gerr, prompt >>)

(***************************************************************************)
(* Specifications                                                          *)
(***************************************************************************)
Next ==
    \E r \in Requests :
        \/ Request(r)
        \/ ConsumeUpdate(r)
        \/ StreamEnd(r)
        \/ StreamError(r)
        \/ ClientClose(r)
        \/ Timeout(r)
        \/ IntroductionNode(r)
        \/ IntroductionReply(r)
        \/ EventExtractionNode(r)
        \/ ExtractionReply(r)
        \/ ModelCallFails(r)
        \/ NftCreationNode(r)

Spec == Init /\ [][Next]_vars

SoloSpec == InitSolo /\ [][Next]_vars

\* What the runtime guarantees to happen: the event loop runs every ready
\* continuation of the handler and of the graph, and an armed timer fires.
\* It does not guarantee that a request arrives, that the client disconnects,
\* or that the language model ever answers.
Fairness ==
    \A r \in Requests :
        /\ WF_vars(ConsumeUpdate(r))
        /\ WF_vars(StreamEnd(r))
        /\ WF_vars(StreamError(r))
        /\ WF_vars(Timeout(r))
        /\ WF_vars(IntroductionNode(r))
        /\ WF_vars(EventExtractionNode(r))
        /\ WF_vars(NftCreationNode(r))

FairSoloSpec == InitSolo /\ [][Next]_vars /\ Fairness

\* a pending model call settles: llm.invoke resolves or rejects
ModelReturns(r) ==
    \/ IntroductionReply(r)
    \/ ExtractionReply(r)
    \/ ModelCallFails(r)

\* the runtime's guarantees, in an environment where every model call returns
ReturningFairness ==
    /\ Fairness
    /\ \A r \in Requests : WF_vars(ModelReturns(r))

ReturningSoloSpec == InitSolo /\ [][Next]_vars /\ ReturningFairness

(***************************************************************************)
(* The helper functions applied on their own: formatTemplate (graph.ts,    *)
(* lines 79-81) and convertChatHistoryToMessages (server file, lines       *)
(* 36-51), on arguments drawn from small sets                              *)
(***************************************************************************)
MaxHistoryLen == 2

KeyName == <<"n","a","m","e">>
KeyB == <<"b">>
TemplateKeys == { KeyName, KeyB }
TemplateValues == { <<>>, <<"v">> }

\* the records formatTemplate is given: any keys, any values
TemplateData == UNION { [K -> TemplateValues] : K \in SUBSET TemplateKeys }

Templates ==
    { <<"H","i"," ","{","n","a","m","e","}">>,
      <<"{","n","a","m","e","}","{","b","}">>,
      <<"{","b","}","-","{","b","}">>,
      <<"{","n","a","m","e">>,
      <<"{","}","!">>,
      <<"{","b"," ","}">>,
      <<"{","t","o","S","t","r","i","n","g","}">>,
      <<"o","k">> }

HistoryLabels ==
    { <<"h","u","m","a","n">>, <<"A","i">>,
      <<"A","S","S","I","S","T","A","N","T">>, <<"b","o","t">> }
HistoryTexts == { <<"a">>, <<"b">> }

\* a [role, content] pair as JSON.parse delivers it
HistoryPair(label, text) == Arr(<<Str(label), Str(text)>>)
HistoryPairs == { HistoryPair(l, x) : l \in HistoryLabels, x \in HistoryTexts }
Histories == UNION { [1..n -> HistoryPairs] : n \in 0..MaxHistoryLen }

Calls ==
    [fn : {"formatTemplate"}, template : Templates, data : TemplateData]
    \cup [fn : {"convertChatHistoryToMessages"}, chat_history : Histories]

\* no request is active; one application is about to be evaluated
FunctionInit ==
    /\ InitRequests({}, {})
    /\ call \in Calls
    /\ result = NoResult

FormatTemplateCall ==
    /\ call.fn = "formatTemplate"
    /\ ~result.done
    /\ result' = [done |-> TRUE,
                  value |-> formatTemplate(call.template, call.data)]
    /\ UNCHANGED << handlerVars, signalVars, graphVars, call >>

ConvertCall ==
    /\ call.fn = "convertChatHistoryToMessages"
    /\ ~result.done
    /\ result' = [done |-> TRUE,
                  value |-> convertChatHistoryToMessages(call.chat_history)]
    /\ UNCHANGED << handlerVars, signalVars, graphVars, call >>

FunctionNext == FormatTemplateCall \/ ConvertCall

FunctionSpec == FunctionInit /\ [][FunctionNext]_vars

(***************************************************************************)
(* Vocabulary of the properties                                            *)
(***************************************************************************)
Opened(r) == status[r] = 200
Closed(r) == hpc[r] = "closed"
Types(w) == [i \in 1..Len(w) |-> w[i].type]
Positions(w, type) == {i \in 1..Len(w) : w[i].type = type}
CountType(w, type) == Cardinality(Positions(w, type))

\* the run of r was started (graph.stream was called)
RunStarted(r) == gpc[r] # "none"

\* the history of an accepted request, converted
ConvertedHistory(r) ==
    convertChatHistoryToMessages(ParseChatHistory(query[r]).val)

\* the stream of r was opened and something threw inside the try block
Failed(r) ==
    /\ Opened(r)
    /\ \/ gpc[r] = "failed"
       \/ ~ConvertedHistory(r).ok

\* what was thrown
FailureOf(r) ==
    IF gpc[r] = "failed" THEN gerr[r] ELSE ConvertedHistory(r).error

\* events written while relaying a stage's update
StagePositions(r) == {i \in 1..Len(wire[r]) : source[r][i] # "handler"}

\* a `message` event of the introduce stage is on the wire
IntroMessageEmitted(r) ==
    \E i \in Positions(wire[r], "message") : source[r][i] = IntroductionNodeName

\* the handler's apologetic fallback is on the wire
FallbackEmitted(r) ==
    \E i \in Positions(wire[r], "message") :
        source[r][i] = "handler" /\ wire[r][i] = MessageEvent(ApologyText)

(***************************************************************************)
(* C1: whenever the response of an opened event stream has been closed,    *)
(* exactly one `end` event has been written to it and it is the last event *)
(* written (nothing is written after it, not even after the close),        *)
(* whatever the model replied and whether or not a stage failed.           *)
(***************************************************************************)
C1_ExactlyOneEndAtClose ==
    \A r \in Requests :
        Opened(r) /\ Closed(r) =>
            /\ CountType(wire[r], "end") = 1
            /\ wire[r][Len(wire[r])] = EndEvent

\* a stream closed after a stage failed, with the client already gone
C1_Witness ==
    \E r \in Requests :
        /\ Opened(r) /\ Closed(r)
        /\ gpc[r] = "failed"
        /\ clientGone[r]
        /\ CountType(wire[r], "end") = 1

(***************************************************************************)
(* C2 (as claimed): a run on an input without intent keyword whose model   *)
(* call succeeds ends after exactly one model call and its wire carries    *)
(* exactly loading, message (the model's reply), end.                      *)
(***************************************************************************)
C2_PlainRunLoadingMessageEnd ==
    \A r \in Requests :
        ( /\ Closed(r) /\ RunStarted(r)
          /\ ~isEventCreation(query[r].input.v)
          /\ gpc[r] = "END" )
        => /\ modelCalls[r] = 1
           /\ Types(wire[r]) = <<"loading", "message", "end">>
           /\ wire[r][2].content = outcomes[r][1].text

(***************************************************************************)
(* C3: when something throws after the stream was opened (a model call     *)
(* rejects, or preparing the run throws), the closed stream ends with an   *)
(* `error` event carrying the failure's description (the generic text when *)
(* the failure has none) immediately followed by `end`, a `message` event  *)
(* precedes the `error` event, and the apologetic fallback was sent        *)
(* exactly when no `message` of the introduce stage had been sent.         *)
(***************************************************************************)
C3_FailureMessageErrorEnd ==
    \A r \in Requests :
        Closed(r) /\ Failed(r) =>
            LET w == wire[r]
                n == Len(w)
            IN  /\ n >= 3
                /\ w[n] = EndEvent
                /\ w[n - 1] = ErrorEvent(ErrorDescription(FailureOf(r)))
                /\ CountType(w, "error") = 1
                /\ \E i \in 1..(n - 2) : w[i].type = "message"
                /\ FallbackEmitted(r) <=> ~IntroMessageEmitted(r)

\* a run that failed in its second stage, closed with fallback, error, end
C3_Witness ==
    \E r \in Requests :
        /\ Closed(r)
        /\ gpc[r] = "failed"
        /\ executed[r] = <<IntroductionNodeName, ExtractionNodeName>>
        /\ wire[r] = << MessageEvent(ApologyText),
                        ErrorEvent(<<"rate limit">>), EndEvent >>

(***************************************************************************)
(* Further vocabulary                                                      *)
(***************************************************************************)
\* a model call of run r is in flight
CallInFlight(r) == gpc[r] \in {"intro_call", "extract_call"}

\* the stage output on the wire: `message` and `wager` events that relay a
\* stage's update
StageOutput(r) ==
    {i \in StagePositions(r) : wire[r][i].type \in {"message", "wager"}}

\* a JSON value that is a (roleLabel, text) pair
IsPair(e) ==
    /\ e.t = "arr"
    /\ Len(e.v) = 2
    /\ e.v[1].t = "str"
    /\ e.v[2].t = "str"

\* chat_history is a well-formed encoding of a sequence of pairs
\* (missing: the empty sequence)
WellFormedHistory(q) ==
    \/ q.chat_history = Null
    \/ /\ q.chat_history.t = "str"
       /\ JSONParse(q.chat_history.v).ok
       /\ JSONParse(q.chat_history.v).val.t = "arr"
       /\ \A i \in 1..Len(JSONParse(q.chat_history.v).val.v) :
              IsPair(JSONParse(q.chat_history.v).val.v[i])

\* input is there and not empty
WellFormedInput(q) == q.input.t = "str" /\ q.input.v # <<>>

\* the request has arrived
Arrived(r) == hpc[r] \notin {"absent", "idle"}

(***************************************************************************)
(* C4 (as claimed): once the timeout has fired on a run whose model call   *)
(* is in flight, then, unless that call resolves, the run eventually       *)
(* writes `error` and `end` and its stream is closed.                      *)
(***************************************************************************)
C4_TimeoutEndsHungRun ==
    \A r \in Requests :
        (timer[r] = "fired" /\ CallInFlight(r))
        ~> ( \/ ~CallInFlight(r)
             \/ /\ Closed(r)
                /\ CountType(wire[r], "error") >= 1
                /\ CountType(wire[r], "end") >= 1 )

(***************************************************************************)
(* C5 (as claimed): once the client has disconnected, the run's signal is  *)
(* aborted and from then on no stage starts, no model call is started or   *)
(* answered (the call in flight was cancelled) and no stage output is      *)
(* written to the stream.                                                  *)
(***************************************************************************)
C5_DisconnectStopsRun ==
    [][ \A r \in Requests :
          clientGone[r] =>
            /\ aborted[r]
            /\ executed'[r] = executed[r]
            /\ modelCalls'[r] = modelCalls[r]
            /\ outcomes'[r] = outcomes[r]
            /\ StageOutput(r)' = StageOutput(r) ]_vars

(***************************************************************************)
(* C6 (as claimed): a request whose input is missing or empty, or whose    *)
(* chat_history is not a well-formed encoding of a sequence of pairs, is   *)
(* answered with a client error, its stream is never opened, nothing is    *)
(* written to it and no stage runs.                                        *)
(***************************************************************************)
C6_MalformedRequestRejected ==
    \A r \in Requests :
        Arrived(r) /\ ~(WellFormedInput(query[r]) /\ WellFormedHistory(query[r]))
        => /\ status[r] = HttpBadRequest
           /\ wire[r] = <<>>
           /\ executed[r] = <<>>

(***************************************************************************)
(* C7 (as claimed): every run that has ended wrote `loading` exactly once, *)
(* before every `message` and `wager` event.                               *)
(***************************************************************************)
C7_LoadingExactlyOnceFirst ==
    \A r \in Requests :
        Closed(r) /\ RunStarted(r) =>
            /\ CountType(wire[r], "loading") = 1
            /\ \A i \in Positions(wire[r], "loading") :
               \A j \in Positions(wire[r], "message") \cup Positions(wire[r], "wager") :
                   i < j

(***************************************************************************)
(* C8 (as claimed): in every run that executed the finalize stage and      *)
(* ended, the stage's summary message was written to the wire as a         *)
(* `message` event before `end`.                                           *)
(***************************************************************************)
C8_SummaryDelivered ==
    \A r \in Requests :
        ( /\ Closed(r)
          /\ gpc[r] = "END"
          /\ \E k \in 1..Len(executed[r]) : executed[r][k] = NftCreationNodeName )
        => \E i \in Positions(wire[r], "message") :
              /\ wire[r][i].content = SummaryMessage(gstate[r].nftTicketObject)
              /\ \A j \in Positions(wire[r], "end") : i < j

(***************************************************************************)
(* C9 (as claimed): on an input with an intent keyword the introduce stage *)
(* hands over to the extraction stage without a model call, and every      *)
(* message of the run (produced by a stage, or written to the wire as a    *)
(* `message` event) originates from the extraction stage.                  *)
(***************************************************************************)
KeywordRun(r) == RunStarted(r) /\ isEventCreation(query[r].input.v)

\* the introduce stage of a keyword run called no model and routed to the
\* extraction stage
SkipsToExtraction(r) ==
    Len(executed[r]) >= 1 =>
        /\ executed[r][1] = IntroductionNodeName
        /\ gpc[r] # "intro_call"
        /\ Len(executed[r]) = 1 => modelCalls[r] = 0 /\ gpc[r] = ExtractionNodeName
        /\ Len(executed[r]) >= 2 => executed[r][2] = ExtractionNodeName

\* the nodes whose update carried a message
SpeakingNodes(r) == {spoke[r][k] : k \in 1..Len(spoke[r])}

\* who produced the `message` events on the wire
MessageSources(r) == {source[r][i] : i \in Positions(wire[r], "message")}

C9_OnlyExtractionSpeaks ==
    \A r \in Requests :
        KeywordRun(r) =>
            /\ SkipsToExtraction(r)
            /\ SpeakingNodes(r) \subseteq {ExtractionNodeName}
            /\ MessageSources(r) \subseteq {ExtractionNodeName}

(***************************************************************************)
(* C9 (amended): on an input with an intent keyword the introduce stage    *)
(* hands over to the extraction stage without a model call and without a   *)
(* message; the messages the stages produce originate from the extraction  *)
(* stage or from the finalize stage (its summary), and no `message` event  *)
(* on the wire originates from the introduce stage.                        *)
(***************************************************************************)
C9_IntroduceStageSilent ==
    \A r \in Requests :
        KeywordRun(r) =>
            /\ SkipsToExtraction(r)
            /\ SpeakingNodes(r) \subseteq {ExtractionNodeName, NftCreationNodeName}
            /\ IntroductionNodeName \notin MessageSources(r)

\* a keyword run that went through all three stages and ended: the only
\* stage that spoke is the finalize stage
C9_Witness ==
    \E r \in Requests :
        /\ KeywordRun(r)
        /\ Closed(r)
        /\ executed[r] = <<IntroductionNodeName, ExtractionNodeName,
                           NftCreationNodeName>>
        /\ modelCalls[r] = 1
        /\ SpeakingNodes(r) = {NftCreationNodeName}

(***************************************************************************)
(* A run executed alone: what its wire and its channels are at the end,    *)
(* as a function of the request and of what its own environment delivered  *)
(***************************************************************************)
Chunk(nodeName, update) == [node |-> nodeName, output |-> update]

\* the graph run from state s0 with the environment's deliveries outs
AloneGraph(s0, outs) ==
    IF isEventCreation(s0.input.v)
    THEN LET c1 == Chunk(IntroductionNodeName, IntroductionSkip)
             s1 == ApplyUpdate(s0, IntroductionSkip)
         IN  IF outs[1].kind = "error"
             THEN [chunks |-> <<c1>>, state |-> s1, failed |-> TRUE,
                   error |-> outs[1].error]
             ELSE LET u2 == ExtractionResult(outs[1].text)
                      s2 == ApplyUpdate(s1, u2)
                      c2 == Chunk(ExtractionNodeName, u2)
                  IN  IF AfterExtraction(s2) = "END"
                      THEN [chunks |-> <<c1, c2>>, state |-> s2,
                            failed |-> FALSE, error |-> NoError]
                      ELSE LET u3 == NftCreationResult(s2, outs[2].now)
                           IN  [chunks |-> <<c1, c2, Chunk(NftCreationNodeName, u3)>>,
                                state |-> ApplyUpdate(s2, u3),
                                failed |-> FALSE, error |-> NoError]
    ELSE IF outs[1].kind = "error"
         THEN [chunks |-> <<>>, state |-> s0, failed |-> TRUE,
               error |-> outs[1].error]
         ELSE LET u1 == IntroductionResult(outs[1].text)
              IN  [chunks |-> <<Chunk(IntroductionNodeName, u1)>>,
                   state |-> ApplyUpdate(s0, u1),
                   failed |-> FALSE, error |-> NoError]

\* the for-await loop over chunks, from the flags (sent, complete)
RECURSIVE AloneRelay(_, _, _)
AloneRelay(chunks, sent, complete) ==
    IF chunks = <<>> THEN [events |-> <<>>, complete |-> complete]
    ELSE LET c == Head(chunks)
             first == LoadingEvents(c.node, sent) \o MessageEvents(c.node, c.output)
             rest == AloneRelay(Tail(chunks),
                                sent \/ LoadingEvents(c.node, sent) # <<>>,
                                complete \/ CompletesInitialNode(c.node, c.output))
         IN  [events |-> first \o rest.events, complete |-> rest.complete]

\* the wire of an accepted request q run alone
AloneWire(q, outs) ==
    LET history == convertChatHistoryToMessages(ParseChatHistory(q).val)
    IN  IF ~history.ok THEN CatchEvents(FALSE, history.error)
        ELSE LET g == AloneGraph(InitialGraphState(q.input.v, history.val), outs)
                 relayed == AloneRelay(g.chunks, FALSE, FALSE)
             IN  relayed.events \o
                 (IF g.failed THEN CatchEvents(relayed.complete, g.error)
                  ELSE CompletionEvents)

\* everything the program keeps for request r
PerRequest(r) ==
    << hpc[r], query[r], status[r], wire[r], source[r], initialNodeComplete[r],
       hasSentLoadingIndicator[r], aborted[r], timer[r], clientGone[r], gpc[r],
       gstate[r], queue[r], gerr[r], steps[r], modelCalls[r], executed[r],
       spoke[r], outcomes[r], prompt[r] >>

\* a closed stream carries exactly the wire of its run executed alone, and
\* the channels of a started run are those of the run executed alone
SameAsAlone(r) ==
    /\ Closed(r) =>
         wire[r] = AloneWire(query[r], outcomes[r])
    /\ Closed(r) /\ RunStarted(r) =>
         gstate[r] = AloneGraph(InitialGraphState(query[r].input.v,
                                                  ConvertedHistory(r).val),
                                outcomes[r]).state
    /\ hpc[r] = "rejected" => wire[r] = <<>>

(***************************************************************************)
(* C10: with two requests active at the same time, interleaved at model    *)
(* calls and stream reads, every step touches the state and the stream of  *)
(* one request only, and each closed stream carries the wire events, and   *)
(* each run ends with the channel values, of that run executed alone with  *)
(* the same model replies.                                                 *)
(***************************************************************************)
C10_RunsIsolated ==
    /\ [](\A r \in Requests : SameAsAlone(r))
    /\ [][ \E r \in Requests :
             \A s \in Requests \ {r} : PerRequest(s)' = PerRequest(s) ]_vars

\* both requests are active: one suspended at a model call, the other's
\* graph has streamed an update its handler has not read yet
C10_Witness ==
    /\ hpc[1] = "streaming" /\ hpc[2] = "streaming"
    /\ gpc[1] = "extract_call"
    /\ queue[2] # <<>>
    /\ query[1] # query[2]

(***************************************************************************)
(* Vocabulary of the extraction and finalize stages                        *)
(***************************************************************************)
\* the run of r has started the stage `nodeName`
Executed(r, nodeName) ==
    \E k \in 1..Len(executed[r]) : executed[r][k] = nodeName

\* the extraction call of r has been answered with a reply
ExtractionAnswered(r) ==
    /\ Executed(r, ExtractionNodeName)
    /\ gpc[r] # "extract_call"
    /\ outcomes[r] # <<>>
    /\ outcomes[r][1].kind = "reply"

\* that reply (the introduce stage of such a run called no model)
ExtractionReplyText(r) == outcomes[r][1].text

\* a field holds a value that is not the empty text
Populated(v) == v # Null /\ v # Str(<<>>)

(***************************************************************************)
(* C11 (as claimed): the finalize stage executes only when the extraction  *)
(* reply yielded two well-formed fields: whenever it has executed,         *)
(* eventName and eventDate are both non-null and non-empty; a reply with   *)
(* the marker but without `|` leaves the run in the extraction stage.      *)
(***************************************************************************)
C11_FinalizeOnlyWithBothFields ==
    \A r \in Requests :
        /\ Executed(r, NftCreationNodeName) =>
              Populated(gstate[r].eventName) /\ Populated(gstate[r].eventDate)
        /\ ( /\ ExtractionAnswered(r)
             /\ StartsWith(ExtractionReplyText(r), CompletionMarker)
             /\ IndexOf(ExtractionReplyText(r), <<"|">>) = 0 )
           => /\ gstate[r].currentStep = StepEventExtraction
              /\ gpc[r] = "END"

(***************************************************************************)
(* C12 (as claimed): when the extraction reply is the marker followed by   *)
(* text with at least one `|`, eventName is the trimmed text between the   *)
(* marker and the first `|`, eventDate is the trimmed whole remainder      *)
(* after the first `|` (further `|` included), and the run goes on to the  *)
(* finalize stage.                                                         *)
(***************************************************************************)
\* the text after the marker
AfterMarker(reply) == SubSeq(reply, Len(CompletionMarker) + 1, Len(reply))

\* the two fields of a reply, cut at the first `|` of the text after the marker
FieldBeforeFirstBar(reply) ==
    LET rest == AfterMarker(reply)
    IN  Trim(SubSeq(rest, 1, IndexOf(rest, <<"|">>) - 1))

FieldAfterFirstBar(reply) ==
    LET rest == AfterMarker(reply)
    IN  Trim(SubSeq(rest, IndexOf(rest, <<"|">>) + 1, Len(rest)))

\* the extraction reply of r is the marker followed by text with a `|`
CompleteReply(r) ==
    /\ ExtractionAnswered(r)
    /\ StartsWith(ExtractionReplyText(r), CompletionMarker)
    /\ IndexOf(AfterMarker(ExtractionReplyText(r)), <<"|">>) > 0

C12_FieldsCutAtFirstBar ==
    \A r \in Requests :
        CompleteReply(r) =>
            /\ gstate[r].eventName = Str(FieldBeforeFirstBar(ExtractionReplyText(r)))
            /\ gstate[r].eventDate = Str(FieldAfterFirstBar(ExtractionReplyText(r)))
            /\ gpc[r] = NftCreationNodeName \/ Executed(r, NftCreationNodeName)

(***************************************************************************)
(* C13 (as claimed): when the extraction reply does not begin with the     *)
(* marker, the run stays in the extraction stage and ends there (the       *)
(* finalize stage does not execute), eventName, eventDate and the ticket   *)
(* object keep the values they had, and the reply is written verbatim to   *)
(* the stream as a `message` event.                                        *)
(***************************************************************************)
\* the extraction reply of r does not begin with the marker
IncompleteReply(r) ==
    /\ ExtractionAnswered(r)
    /\ ~StartsWith(ExtractionReplyText(r), CompletionMarker)

\* the run ended in the extraction stage with its fields as they were when
\* the stage started
ExtractionFrame(r) ==
    /\ gpc[r] = "END"
    /\ ~Executed(r, NftCreationNodeName)
    /\ gstate[r].currentStep = StepEventExtraction
    /\ gstate[r].eventName = InitialGraphState(query[r].input.v, <<>>).eventName
    /\ gstate[r].eventDate = InitialGraphState(query[r].input.v, <<>>).eventDate
    /\ gstate[r].nftTicketObject = Null

C13_IncompleteReplyRelayed ==
    \A r \in Requests :
        IncompleteReply(r) =>
            /\ ExtractionFrame(r)
            /\ Closed(r) =>
                 \E i \in Positions(wire[r], "message") :
                     wire[r][i] = MessageEvent(ExtractionReplyText(r))

(***************************************************************************)
(* C14 (as claimed): in every reachable state of a run the ticket object   *)
(* is present if and only if the stage is Completed, the terminal stage,   *)
(* which a run reaches through the finalize stage or through the           *)
(* introduce-only path.                                                    *)
(***************************************************************************)
\* the ticket object of the run exists
TicketPresent(r) == gstate[r].nftTicketObject # Null

\* the stage is the terminal one: the introduce-only path and the finalize
\* stage both end there
StageCompleted(r) ==
    gstate[r].currentStep \in {StepCompleted, StepIntroductionComplete}

C14_TicketIffCompleted ==
    \A r \in Requests : TicketPresent(r) <=> StageCompleted(r)

(***************************************************************************)
(* C14 (amended): the ticket object is present if and only if currentStep  *)
(* is `completed`, the value only the finalize stage sets; a run that ends *)
(* through the introduce-only path ends with currentStep                   *)
(* `introduction_complete`, and a run that stops in the extraction stage   *)
(* with `event_extraction`, both without a ticket object.                  *)
(***************************************************************************)
C14_TicketIffFinalized ==
    \A r \in Requests :
        /\ TicketPresent(r) <=> gstate[r].currentStep = StepCompleted
        /\ gstate[r].currentStep = StepCompleted <=>
               Executed(r, NftCreationNodeName) /\ gpc[r] = "END"
        /\ gpc[r] = "END" /\ ~Executed(r, NftCreationNodeName) =>
               gstate[r].currentStep \in {StepIntroductionComplete,
                                          StepEventExtraction}

\* a run that ended through the introduce-only path: the terminal stage
\* without a ticket object
C14_Witness ==
    \E r \in Requests :
        /\ gpc[r] = "END"
        /\ executed[r] = <<IntroductionNodeName>>
        /\ gstate[r].currentStep = StepIntroductionComplete
        /\ ~TicketPresent(r)

(***************************************************************************)
(* C15: eventName and eventDate are populated monotonically: once either   *)
(* holds a value, no step of the run, in particular no later stage result  *)
(* that omits the field or returns it null, sets it back to unset.         *)
(***************************************************************************)
C15_FieldsNeverUnset ==
    [][ \A r \in Requests :
          /\ gstate[r].eventName # Null => gstate'[r].eventName # Null
          /\ gstate[r].eventDate # Null => gstate'[r].eventDate # Null ]_vars

\* the finalize stage, whose result omits both fields, has been reduced into
\* channels that held both
C15_Witness ==
    \E r \in Requests :
        /\ Executed(r, NftCreationNodeName)
        /\ NftCreationResult(gstate[r], 1).eventName = Null
        /\ NftCreationResult(gstate[r], 1).eventDate = Null
        /\ gstate[r].eventName # Null
        /\ gstate[r].eventDate # Null

(***************************************************************************)
(* C16: the stage graph is acyclic with one terminal node: every run       *)
(* executes each stage at most once and so at most three stages, never     *)
(* reaches the step bound of 100, and, provided each model call returns,   *)
(* terminates.                                                             *)
(***************************************************************************)
\* the run of r is over: it reached END or it was rejected
Terminated(r) == gpc[r] \in {"END", "failed"}

\* the stages of the run so far: none twice, in the order of the edges,
\* fewer supersteps than the bound
StagesBounded(r) ==
    /\ \A i, j \in 1..Len(executed[r]) : executed[r][i] = executed[r][j] => i = j
    /\ Len(executed[r]) <= 3
    /\ steps[r] = Len(executed[r])
    /\ steps[r] < recursionLimit
    /\ gerr[r] # RecursionError
    /\ \E n \in 0..3 :
          executed[r] = SubSeq(<<IntroductionNodeName, ExtractionNodeName,
                                 NftCreationNodeName>>, 1, n)

C16_RunsBoundedAndTerminate ==
    /\ [](\A r \in Requests : StagesBounded(r))
    /\ \A r \in Requests : RunStarted(r) ~> Terminated(r)

\* a run that executed all three stages and reached END
C16_Witness ==
    \E r \in Requests :
        /\ gpc[r] = "END"
        /\ Len(executed[r]) = 3
        /\ steps[r] = 3

(***************************************************************************)
(* C17 (as claimed): render replaces each `{name}` whose name is a key of  *)
(* the values with values[name], whatever that string is, the empty string *)
(* included, and leaves placeholders of absent names and all other text    *)
(* unchanged.                                                              *)
(***************************************************************************)
\* the rendering the claim describes, from position i on
RECURSIVE RenderFrom(_, _, _)
RenderFrom(template, values, i) ==
    IF i > Len(template) THEN <<>>
    ELSE LET n == WordRun(template, i + 1)
             name == SubSeq(template, i + 1, i + n)
         IN  IF /\ template[i] = "{"
                /\ n >= 1
                /\ i + n + 1 <= Len(template)
                /\ template[i + n + 1] = "}"
             THEN (IF name \in DOMAIN values THEN values[name]
                   ELSE SubSeq(template, i, i + n + 1))
                  \o RenderFrom(template, values, i + n + 2)
             ELSE <<template[i]>> \o RenderFrom(template, values, i + 1)

\* formatTemplate has been applied
Rendered == call.fn = "formatTemplate" /\ result.done

C17_RenderSubstitutesEveryKey ==
    Rendered => result.value = RenderFrom(call.template, call.data, 1)

(***************************************************************************)
(* C18: for every sequence of (label, text) pairs toTurns returns a        *)
(* sequence of the same length and order whose i-th turn carries the i-th  *)
(* text, as an Assistant turn when the label is `assistant` or `ai` in any *)
(* letter case and as a Human turn otherwise (an unrecognized label is not *)
(* an error); the empty sequence maps to the empty sequence.               *)
(***************************************************************************)
\* convertChatHistoryToMessages has been applied
Converted == call.fn = "convertChatHistoryToMessages" /\ result.done

\* the label of a pair names the assistant
AssistantLabel(pair) ==
    ToLowerCase(pair.v[1].v) \in { <<"a","s","s","i","s","t","a","n","t">>,
                                   <<"a","i">> }

C18_TurnsFollowPairs ==
    Converted =>
        /\ result.value.ok
        /\ Len(result.value.val) = Len(call.chat_history)
        /\ \A i \in 1..Len(call.chat_history) :
              /\ result.value.val[i].content = call.chat_history[i].v[2]
              /\ result.value.val[i].role =
                    IF AssistantLabel(call.chat_history[i])
                    THEN "Assistant" ELSE "Human"

\* a history of two pairs, an assistant label in mixed case followed by an
\* unrecognized label, has been converted
C18_Witness ==
    /\ Converted
    /\ Len(call.chat_history) = 2
    /\ call.chat_history[1].v[1] = Str(<<"A","i">>)
    /\ call.chat_history[2].v[1] = Str(<<"b","o","t">>)
    /\ result.value.val[1].role = "Assistant"
    /\ result.value.val[2].role = "Human"

(***************************************************************************)
(* C19 (as claimed): on every exit path of the handler (rejection for a    *)
(* missing input, rejection for a malformed chat_history, normal           *)
(* completion, failure) the timeout timer is cancelled, so it never fires  *)
(* after the response has been sent or closed.                             *)
(***************************************************************************)
\* the handler has left: the response was sent (400) or the stream closed
Responded(r) == hpc[r] \in {"rejected", "closed"}

C19_TimerCancelledOnExit ==
    /\ [](\A r \in Requests : Responded(r) => timer[r] # "armed")
    /\ [][ \A r \in Requests :
             Responded(r) /\ timer'[r] = "fired" => timer[r] = "fired" ]_vars

(***************************************************************************)
(* C20: whenever the extraction stage starts, in every run and for every   *)
(* chat history, eventName and eventDate are both unset; hence the prompt  *)
(* of the extraction stage is always the template with `Missing` in place  *)
(* of both fields, and each of the two fields is assigned at most once in  *)
(* a run: a value it holds is never replaced.                              *)
(***************************************************************************)
\* the extraction template with the sentinel in every placeholder
PromptAllMissing ==
    TemplateTask \o MissingText \o TemplateStatusDate \o MissingText
    \o TemplateGuidelines \o MissingText \o TemplateSeparator \o MissingText
    \o TemplateClosing

\* the extraction stage is about to start, or is waiting for its model call
ExtractionStarting(r) == gpc[r] \in {ExtractionNodeName, "extract_call"}

C20_ExtractionStartsUnset ==
    /\ [](\A r \in Requests :
            /\ ExtractionStarting(r) =>
                  gstate[r].eventName = Null /\ gstate[r].eventDate = Null
            /\ Executed(r, ExtractionNodeName) <=> prompt[r] # <<>>
            /\ prompt[r] # <<>> => prompt[r] = PromptAllMissing)
    /\ [][ \A r \in Requests :
             /\ gstate[r].eventName # Null =>
                   gstate'[r].eventName = gstate[r].eventName
             /\ gstate[r].eventDate # Null =>
                   gstate'[r].eventDate = gstate[r].eventDate ]_vars

\* a run with a non-empty chat history whose extraction stage rendered its
\* prompt and then stored both fields
C20_Witness ==
    \E r \in Requests :
        /\ query[r].chat_history = Str(RawPairs)
        /\ gstate[r].chat_history # <<>>
        /\ prompt[r] = PromptAllMissing
        /\ gstate[r].eventName # Null
        /\ gstate[r].eventDate # Null

=============================================================================
